---- MODULE Spec2Model ----
(***************************************************************************)
(* A model of galette, the GAL assembler: the blueprint builder            *)
(* (blueprint.rs), the V8 / 22V10 / 20RA10 mode analysis (olmc.rs), the     *)
(* fuse state and its add_term primitive (gal.rs, chips.rs), the bounds     *)
(* chosen for each kind of term (gal_builder.rs), the JEDEC writer         *)
(* (writer.rs: the bit stream, the text of the file and its checksums)     *)
(* and the parser of the source file (parser.rs).                          *)
(*                                                                         *)
(* Rust vectors are 0-indexed; a Vec of length n is modelled as a function  *)
(* on 0..n-1.  Static tables are written as tuples and read through Tab,    *)
(* which takes the 0-based index of the source.  The fuse grid, a flat      *)
(* Vec<bool> of num_rows * num_cols bits, is held row by row: the bit of    *)
(* index i is fuses[i \div num_cols][i % num_cols].                          *)
(***************************************************************************)
EXTENDS Integers, Sequences, FiniteSets, TLC

VARIABLES chip, pc, olmcs, ar, sp, neqn, err, gal, last, fuse_builder, wpos, config, jedec, file, parser, builder

vars == <<chip, pc, olmcs, ar, sp, neqn, err, gal, last, fuse_builder, wpos, config, jedec, file, parser, builder>>

----------------------------------------------------------------------------
(* Generic helpers *)

\* 0-based read of a static table written as a tuple.
Tab(t, i) == t[i + 1]

\* A Vec<bool> of length n filled with b.
VecOf(n, b) == [i \in 0..(n - 1) |-> b]

\* Result<T, E>
Ok(v) == [ok |-> TRUE, val |-> v, code |-> "None", suffix |-> ""]

Err(c) == [ok |-> FALSE, val |-> 0, code |-> c, suffix |-> ""]

ErrS(c, s) == [ok |-> FALSE, val |-> 0, code |-> c, suffix |-> s]

\* Option<T>: None is the record below, Some(x) is x itself (a record with
\* a field "some" set to TRUE).
None == [some |-> FALSE]

IsSome(o) == o.some

\* The Error of errors.rs: an error code and a line.  NoError is "no error
\* has been returned".
NoError == [code |-> "None", suffix |-> "", line |-> 0]

\* errors.rs, at_line
at_line(line, res) == [code |-> res.code, suffix |-> res.suffix, line |-> line]

\* A panic, held where an Error is held: it has no line.
Panic == [code |-> "Panic", suffix |-> "", line |-> 0]

----------------------------------------------------------------------------
(* chips.rs *)

Chips == {"GAL16V8", "GAL20V8", "GAL22V10", "GAL20RA10"}

OLMC_SIZE_22V10 == <<9, 11, 13, 15, 17, 17, 15, 13, 11, 9>>

OLMC_SIZE_DEFAULT == 8

OLMC_ROWS_XXV8 == <<56, 48, 40, 32, 24, 16, 8, 0>>

OLMC_ROWS_22V10 == <<122, 111, 98, 83, 66, 49, 34, 21, 10, 1>>

OLMC_ROWS_20RA10 == <<72, 64, 56, 48, 40, 32, 24, 16, 8, 0>>

GAL16V8_DATA == [name |-> "GAL16V8", num_pins |-> 20, num_rows |-> 64, num_cols |-> 32, total_size |-> 2194, min_olmc_pin |-> 12, max_olmc_pin |-> 19, olmc_map |-> OLMC_ROWS_XXV8]

GAL20V8_DATA == [name |-> "GAL20V8", num_pins |-> 24, num_rows |-> 64, num_cols |-> 40, total_size |-> 2706, min_olmc_pin |-> 15, max_olmc_pin |-> 22, olmc_map |-> OLMC_ROWS_XXV8]

GAL22V10_DATA == [name |-> "GAL22V10", num_pins |-> 24, num_rows |-> 132, num_cols |-> 44, total_size |-> 5892, min_olmc_pin |-> 14, max_olmc_pin |-> 23, olmc_map |-> OLMC_ROWS_22V10]

GAL20RA10_DATA == [name |-> "GAL20RA10", num_pins |-> 24, num_rows |-> 80, num_cols |-> 40, total_size |-> 3274, min_olmc_pin |-> 14, max_olmc_pin |-> 23, olmc_map |-> OLMC_ROWS_20RA10]

get_chip_data(c) ==
  CASE c = "GAL16V8" -> GAL16V8_DATA
    [] c = "GAL20V8" -> GAL20V8_DATA
    [] c = "GAL22V10" -> GAL22V10_DATA
    [] c = "GAL20RA10" -> GAL20RA10_DATA

num_pins(c) == get_chip_data(c).num_pins

num_rows(c) == get_chip_data(c).num_rows

num_cols(c) == get_chip_data(c).num_cols

logic_size(c) == get_chip_data(c).num_rows * get_chip_data(c).num_cols

total_size(c) == get_chip_data(c).total_size

\* Option<usize>
pin_to_olmc(c, pin) ==
  LET data == get_chip_data(c) IN
  IF data.min_olmc_pin <= pin /\ pin <= data.max_olmc_pin
  THEN [some |-> TRUE, val |-> pin - data.min_olmc_pin]
  ELSE [some |-> FALSE, val |-> 0]

num_olmcs(c) == get_chip_data(c).max_olmc_pin - get_chip_data(c).min_olmc_pin + 1

start_row_for_olmc(c, olmc_num) == Tab(get_chip_data(c).olmc_map, olmc_num)

\* A variant of num_rows_for_olmc that gives the OLMCs of every chip 8
\* rows; C28 fails for it.
num_rows_for_olmc_default(c, olmc_num) == OLMC_SIZE_DEFAULT

\* Chip::num_rows_for_olmc
num_rows_for_olmc(c, olmc_num) ==
  IF c = "GAL22V10" THEN Tab(OLMC_SIZE_22V10, olmc_num) ELSE OLMC_SIZE_DEFAULT

\* chips.rs, Chip::get_bounds
chip_get_bounds(c, olmc_num) ==
  [start_row |-> start_row_for_olmc(c, olmc_num), max_row |-> num_rows_for_olmc(c, olmc_num), row_offset |-> 0]

----------------------------------------------------------------------------
(* gal.rs: terms *)

Pin(p, n) == [pin |-> p, neg |-> n]

\* Empty row is always true (being the AND of nothing).
true_term(line_num) == [some |-> TRUE, line_num |-> line_num, pins |-> << <<>> >>]

\* No rows is always false (being the OR of nothing).
false_term(line_num) == [some |-> TRUE, line_num |-> line_num, pins |-> <<>>]

MkTerm(line_num, pins) == [some |-> TRUE, line_num |-> line_num, pins |-> pins]

----------------------------------------------------------------------------
(* gal.rs: pin to column tables *)

BAD == Err("BadAnalysis")

O1 == Err("NotAnInput1")

O113 == Err("NotAnInput113")

O111 == Err("NotAnInput111")

O1219 == Err("NotAnInput1219")

O13 == Err("NotAnInput13")

O1522 == Err("NotAnInput1522")

PWR == Err("BadPower")

PIN_TO_COL_16_MODE1 ==
  << Ok(2),  Ok(0),  Ok(4),  Ok(8),  Ok(12), Ok(16), Ok(20), Ok(24), Ok(28), PWR,
     Ok(30), Ok(26), Ok(22), Ok(18), BAD,    BAD,    Ok(14), Ok(10), Ok(6),  PWR >>

PIN_TO_COL_16_MODE2 ==
  << Ok(2),  Ok(0), Ok(4),  Ok(8),  Ok(12), Ok(16), Ok(20), Ok(24), Ok(28), PWR,
     Ok(30), O1219, Ok(26), Ok(22), Ok(18), Ok(14), Ok(10), Ok(6),  O1219,  PWR >>

PIN_TO_COL_16_MODE3 ==
  << O111, Ok(0),  Ok(4),  Ok(8),  Ok(12), Ok(16), Ok(20), Ok(24), Ok(28), PWR,
     O111, Ok(30), Ok(26), Ok(22), Ok(18), Ok(14), Ok(10), Ok(6),  Ok(2),  PWR >>

PIN_TO_COL_20_MODE1 ==
  << Ok(2),  Ok(0),  Ok(4),  Ok(8),  Ok(12), Ok(16), Ok(20), Ok(24), Ok(28), Ok(32), Ok(36), PWR,
     Ok(38), Ok(34), Ok(30), Ok(26), Ok(22), BAD,    BAD,    Ok(18), Ok(14), Ok(10), Ok(6),  PWR >>

PIN_TO_COL_20_MODE2 ==
  << Ok(2),  Ok(0),  Ok(4), Ok(8),  Ok(12), Ok(16), Ok(20), Ok(24), Ok(28), Ok(32), Ok(36), PWR,
     Ok(38), Ok(34), O1522, Ok(30), Ok(26), Ok(22), Ok(18), Ok(14), Ok(10), O1522,  Ok(6),  PWR >>

PIN_TO_COL_20_MODE3 ==
  << O113, Ok(0),  Ok(4),  Ok(8),  Ok(12), Ok(16), Ok(20), Ok(24), Ok(28), Ok(32), Ok(36), PWR,
     O113, Ok(38), Ok(34), Ok(30), Ok(26), Ok(22), Ok(18), Ok(14), Ok(10), Ok(6),  Ok(2),  PWR >>

PIN_TO_COL_22V10 ==
  << Ok(0),  Ok(4),  Ok(8),  Ok(12), Ok(16), Ok(20), Ok(24), Ok(28), Ok(32), Ok(36), Ok(40), PWR,
     Ok(42), Ok(38), Ok(34), Ok(30), Ok(26), Ok(22), Ok(18), Ok(14), Ok(10), Ok(6),  Ok(2),  PWR >>

PIN_TO_COL_20RA10 ==
  << O1,  Ok(0),  Ok(4),  Ok(8),  Ok(12), Ok(16), Ok(20), Ok(24), Ok(28), Ok(32), Ok(36), PWR,
     O13, Ok(38), Ok(34), Ok(30), Ok(26), Ok(22), Ok(18), Ok(14), Ok(10), Ok(6),  Ok(2),  PWR >>

----------------------------------------------------------------------------
(* gal.rs: the GAL structure *)

\* The fuse state before GAL::new has run.
NoGAL == [chip |-> "None", fuses |-> <<>>, xor |-> <<>>, sig |-> <<>>, ac1 |-> <<>>, pt |-> <<>>, syn |-> FALSE, ac0 |-> FALSE]

\* GAL::new
GAL_new(c) ==
  [chip |-> c,
   fuses |-> [r \in 0..(num_rows(c) - 1) |-> VecOf(num_cols(c), TRUE)],
   xor |-> VecOf(num_olmcs(c), FALSE),
   sig |-> VecOf(64, FALSE),
   ac1 |-> VecOf(num_olmcs(c), FALSE),
   pt |-> VecOf(64, FALSE),
   syn |-> FALSE,
   ac0 |-> FALSE]

Modes == {"Simple", "Complex", "Registered"}

\* GAL::set_mode: the new fuse state and whether the call returned; the
\* assert panics for a chip that is no GAL16V8 or GAL20V8.
set_mode(g, mode) ==
  IF g.chip \notin {"GAL16V8", "GAL20V8"} THEN [gal |-> g, res |-> Err("Panic")]
  ELSE [gal |-> CASE mode = "Simple" -> [g EXCEPT !.syn = TRUE, !.ac0 = FALSE]
                  [] mode = "Complex" -> [g EXCEPT !.syn = TRUE, !.ac0 = TRUE]
                  [] mode = "Registered" -> [g EXCEPT !.syn = FALSE, !.ac0 = TRUE],
        res |-> Ok(0)]

\* GAL::get_mode; the assert panics for a chip that is no GAL16V8 or
\* GAL20V8, and so does the last arm of the match.
get_mode(g) ==
  CASE g.chip \notin {"GAL16V8", "GAL20V8"} -> "Panic"
    [] g.chip \in {"GAL16V8", "GAL20V8"} /\ g.syn /\ ~g.ac0 -> "Simple"
    [] g.chip \in {"GAL16V8", "GAL20V8"} /\ g.syn /\ g.ac0 -> "Complex"
    [] g.chip \in {"GAL16V8", "GAL20V8"} /\ ~g.syn /\ g.ac0 -> "Registered"
    [] OTHER -> "Panic"

\* A variant of needs_flip that never flips; C7 fails for it.
needs_flip_never(g, pin_num) == FALSE

\* GAL::needs_flip
needs_flip(g, pin_num) ==
  IF g.chip # "GAL22V10" THEN FALSE
  ELSE LET o == pin_to_olmc(g.chip, pin_num) IN
       IF o.some THEN ~g.ac1[num_olmcs(g.chip) - 1 - o.val] ELSE FALSE

\* A variant of column_table with the Simple and Complex tables exchanged;
\* C9 fails for it.
column_table_swapped(c, mode) ==
  CASE c = "GAL16V8" /\ mode = "Simple" -> PIN_TO_COL_16_MODE2
    [] c = "GAL16V8" /\ mode = "Complex" -> PIN_TO_COL_16_MODE1
    [] c = "GAL16V8" /\ mode = "Registered" -> PIN_TO_COL_16_MODE3
    [] c = "GAL20V8" /\ mode = "Simple" -> PIN_TO_COL_20_MODE2
    [] c = "GAL20V8" /\ mode = "Complex" -> PIN_TO_COL_20_MODE1
    [] c = "GAL20V8" /\ mode = "Registered" -> PIN_TO_COL_20_MODE3
    [] c = "GAL22V10" -> PIN_TO_COL_22V10
    [] c = "GAL20RA10" -> PIN_TO_COL_20RA10
    [] OTHER -> <<>>

\* The match of GAL::pin_to_column: the table of the chip and mode.
column_table(c, mode) ==
  CASE c = "GAL16V8" /\ mode = "Simple" -> PIN_TO_COL_16_MODE1
    [] c = "GAL16V8" /\ mode = "Complex" -> PIN_TO_COL_16_MODE2
    [] c = "GAL16V8" /\ mode = "Registered" -> PIN_TO_COL_16_MODE3
    [] c = "GAL20V8" /\ mode = "Simple" -> PIN_TO_COL_20_MODE1
    [] c = "GAL20V8" /\ mode = "Complex" -> PIN_TO_COL_20_MODE2
    [] c = "GAL20V8" /\ mode = "Registered" -> PIN_TO_COL_20_MODE3
    [] c = "GAL22V10" -> PIN_TO_COL_22V10
    [] c = "GAL20RA10" -> PIN_TO_COL_20RA10
    [] OTHER -> <<>>

\* A variant of table_at that reads the table at pin_num; C26 fails for it.
table_at_unshifted(t, pin_num) ==
  IF pin_num \in 0..(Len(t) - 1) THEN Tab(t, pin_num) ELSE Err("Panic")

\* column_lookup[pin_num - 1]; an index outside the table panics.
table_at(t, pin_num) ==
  IF pin_num - 1 \in 0..(Len(t) - 1) THEN Tab(t, pin_num - 1) ELSE Err("Panic")

\* GAL::pin_to_column.  get_mode is called for the GAL16V8 and GAL20V8
\* only; its panic leaves no table to read.
pin_to_column(g, pin_num) ==
  table_at(column_table(g.chip, IF g.chip \in {"GAL16V8", "GAL20V8"} THEN get_mode(g) ELSE "None"), pin_num)

\* The fuse of index i.
Fuse(g, i) == g.fuses[i \div num_cols(g.chip)][i % num_cols(g.chip)]

\* self.fuses[i] = false; an index outside the Vec panics.
clear_fuse(g, i, cols) ==
  IF i \notin 0..(logic_size(g.chip) - 1) THEN [gal |-> g, res |-> Err("Panic")]
  ELSE [gal |-> [g EXCEPT !.fuses[i \div cols][i % cols] = FALSE], res |-> Ok(0)]

\* GAL::set_and once the column is known: the new fuse state and the Result.
set_and_column(g, row, column, negation) ==
  IF ~column.ok THEN [gal |-> g, res |-> column]
  ELSE clear_fuse(g, row * num_cols(g.chip) + column.val + (IF negation THEN 1 ELSE 0), num_cols(g.chip))

\* GAL::set_and
set_and(g, row, pin_num, negation) == set_and_column(g, row, pin_to_column(g, pin_num), negation)

\* The loop of GAL::clear_rows: the fuses start..end-1 are set to false,
\* one after the other; the first index outside the Vec panics, the fuses
\* before it being cleared.
clear_range(g, start, end, cols) ==
  [gal |-> [g EXCEPT !.fuses = [r \in DOMAIN g.fuses |->
              IF end <= r * cols \/ (r + 1) * cols <= start THEN g.fuses[r]
              ELSE [c \in DOMAIN g.fuses[r] |-> IF start <= r * cols + c /\ r * cols + c < end THEN FALSE ELSE g.fuses[r][c]]]],
   res |-> IF start < end /\ end > Cardinality(DOMAIN g.fuses) * cols THEN Err("Panic") ELSE Ok(0)]

\* A variant of clear_rows that clears from the first row of the OLMC,
\* whatever the row offset; C6 fails for it.
clear_rows_from_start(g, bounds) ==
  clear_range(g, bounds.start_row * num_cols(g.chip), (bounds.start_row + bounds.max_row) * num_cols(g.chip), num_cols(g.chip))

\* GAL::clear_rows: the new fuse state and whether the call returned.
clear_rows(g, bounds) ==
  clear_range(g, (bounds.start_row + bounds.row_offset) * num_cols(g.chip), (bounds.start_row + bounds.max_row) * num_cols(g.chip), num_cols(g.chip))

\* What a function that ends with the call c of clear_rows gives: Ok(()),
\* or the panic of clear_rows.
after_clear(c) == [gal |-> c.gal, err |-> IF c.res.ok THEN NoError ELSE Panic]

\* The inner loop of GAL::add_term: the inputs of one product, from the
\* k-th on, set in row `row`; `?` returns at the first error (inputs_next
\* is the rest of the loop after the k-th set_and returned r).
RECURSIVE add_term_inputs(_, _, _, _)
RECURSIVE inputs_next(_, _, _, _)
add_term_inputs(g, inputs, row, k) ==
  IF k > Len(inputs) THEN [gal |-> g, res |-> Ok(0)]
  ELSE inputs_next(set_and(g, row, inputs[k].pin, inputs[k].neg # needs_flip(g, inputs[k].pin)), inputs, row, k)

inputs_next(r, inputs, row, k) ==
  IF ~r.res.ok THEN r ELSE add_term_inputs(r.gal, inputs, row, k + 1)

\* The outer loop of GAL::add_term, from the k-th product on, and the
\* clear_rows call that follows it (rows_next is the rest of the loop after
\* the inputs of the k-th product returned r).
RECURSIVE add_term_rows(_, _, _, _, _)
RECURSIVE rows_next(_, _, _, _, _)
add_term_rows(g, term, bounds, single_row, k) ==
  IF k > Len(term.pins) THEN after_clear(clear_rows(g, bounds))
  ELSE IF bounds.row_offset = bounds.max_row
  THEN [gal |-> g, err |-> at_line(term.line_num, Err(IF single_row THEN "MoreThanOneProduct" ELSE "TooManyProducts"))]
  ELSE rows_next(add_term_inputs(g, term.pins[k], bounds.start_row + bounds.row_offset, 1), term, bounds, single_row, k)

rows_next(r, term, bounds, single_row, k) ==
  IF ~r.res.ok THEN [gal |-> r.gal, err |-> at_line(term.line_num, r.res)]
  ELSE add_term_rows(r.gal, term, [bounds EXCEPT !.row_offset = @ + 1], single_row, k + 1)

\* A variant of add_term that takes every slot for one of several rows; C5
\* fails for it.
add_term_multi_row(g, term, bounds) ==
  add_term_rows(g, term, bounds, FALSE, 1)

\* A variant of add_term that gives back the fuse state it was called with
\* when it fails; C29 fails for it.
add_term_rollback(g, term, bounds) ==
  IF add_term_rows(g, term, bounds, bounds.max_row = bounds.row_offset + 1, 1).err # NoError
  THEN [gal |-> g, err |-> add_term_rows(g, term, bounds, bounds.max_row = bounds.row_offset + 1, 1).err]
  ELSE add_term_rows(g, term, bounds, bounds.max_row = bounds.row_offset + 1, 1)

\* GAL::add_term: returns the new fuse state and the error (NoError for Ok).
add_term(g, term, bounds) ==
  add_term_rows(g, term, bounds, bounds.max_row = bounds.row_offset + 1, 1)

\* GAL::add_term_opt
add_term_opt(g, term, bounds) ==
  add_term(g, IF IsSome(term) THEN term ELSE false_term(0), bounds)

----------------------------------------------------------------------------
(* parser.rs: the shape of an equation *)

Suffixes == {"None", "T", "R", "E", "CLK", "ARST", "APRST"}

\* LHS::Pin((pin, suffix)), LHS::Ar, LHS::Sp
LPin(p, n, suffix) == [kind |-> "Pin", pin |-> Pin(p, n), suffix |-> suffix]

LAr == [kind |-> "Ar", pin |-> Pin(0, FALSE), suffix |-> "None"]

LSp == [kind |-> "Sp", pin |-> Pin(0, FALSE), suffix |-> "None"]

Equation(line_num, lhs, rhs, is_or) == [line_num |-> line_num, lhs |-> lhs, rhs |-> rhs, is_or |-> is_or]

----------------------------------------------------------------------------
(* blueprint.rs *)

\* The OLMC of Blueprint::new.  `output` is None or Some((PinMode, Term)),
\* with PinMode one of "Combinatorial", "Tristate", "Registered"; the mode
\* analysis of olmc.rs (where Combinatorial is spelled ComTriOut) adds
\* "ComOut".
NewOLMC == [active |-> "Low", output |-> None, tri_con |-> None, clock |-> None, arst |-> None, aprst |-> None, feedback |-> FALSE]

SomeOutput(pin_mode, term) == [some |-> TRUE, mode |-> pin_mode, term |-> term]

\* Blueprint::new: the OLMCs
Blueprint_new(c) == [i \in 0..(num_olmcs(c) - 1) |-> NewOLMC]

\* A variant of set_base that redefines an output already set; C2 fails
\* for it.
set_base_overwrite(olmc, pin, term, pin_mode) ==
  [olmc |-> [olmc EXCEPT !.output = SomeOutput(pin_mode, term), !.active = IF pin.neg THEN "Low" ELSE "High"], res |-> Ok(0)]

\* OLMC::set_base
set_base(olmc, pin, term, pin_mode) ==
  IF IsSome(olmc.output) THEN [olmc |-> olmc, res |-> Err("RepeatedOutput")]
  ELSE [olmc |-> [olmc EXCEPT !.output = SomeOutput(pin_mode, term), !.active = IF pin.neg THEN "Low" ELSE "High"], res |-> Ok(0)]

\* A variant of set_enable that looks for an enable term already set
\* before it looks at the negation of the pin; C21 fails for it.
set_enable_repeated_first(olmc, pin, term) ==
  IF olmc.tri_con # None THEN [olmc |-> olmc, res |-> ErrS("RepeatedControl", "E")]
  ELSE IF pin.neg THEN [olmc |-> olmc, res |-> ErrS("InvertedControl", "E")]
  ELSE [olmc |-> [olmc EXCEPT !.tri_con = term], res |-> Ok(0)]

\* A variant of set_enable that wants the output defined first; C30 fails
\* for it.
set_enable_premature(olmc, pin, term) ==
  IF pin.neg THEN [olmc |-> olmc, res |-> ErrS("InvertedControl", "E")]
  ELSE IF ~IsSome(olmc.output) THEN [olmc |-> olmc, res |-> ErrS("UndefinedOutput", "E")]
  ELSE IF olmc.tri_con # None THEN [olmc |-> olmc, res |-> ErrS("RepeatedControl", "E")]
  ELSE [olmc |-> [olmc EXCEPT !.tri_con = term], res |-> Ok(0)]

\* OLMC::set_enable
set_enable(olmc, pin, term) ==
  IF pin.neg THEN [olmc |-> olmc, res |-> ErrS("InvertedControl", "E")]
  ELSE IF olmc.tri_con # None THEN [olmc |-> olmc, res |-> ErrS("RepeatedControl", "E")]
  ELSE [olmc |-> [olmc EXCEPT !.tri_con = term], res |-> Ok(0)]

\* OLMC::set_clock
set_clock(olmc, pin, term) ==
  IF pin.neg THEN [olmc |-> olmc, res |-> ErrS("InvertedControl", "CLK")]
  ELSE IF IsSome(olmc.clock) THEN [olmc |-> olmc, res |-> ErrS("RepeatedControl", "CLK")]
  ELSE [olmc |-> [olmc EXCEPT !.clock = term], res |-> Ok(0)]

\* OLMC::set_arst
set_arst(olmc, pin, term) ==
  IF pin.neg THEN [olmc |-> olmc, res |-> ErrS("InvertedControl", "ARST")]
  ELSE IF IsSome(olmc.arst) THEN [olmc |-> olmc, res |-> ErrS("RepeatedControl", "ARST")]
  ELSE [olmc |-> [olmc EXCEPT !.arst = term], res |-> Ok(0)]

\* OLMC::set_aprst
set_aprst(olmc, pin, term) ==
  IF pin.neg THEN [olmc |-> olmc, res |-> ErrS("InvertedControl", "APRST")]
  ELSE IF IsSome(olmc.aprst) THEN [olmc |-> olmc, res |-> ErrS("RepeatedControl", "APRST")]
  ELSE [olmc |-> [olmc EXCEPT !.aprst = term], res |-> Ok(0)]

\* A variant of group_pins that closes a product with the pin that has
\* the flag instead of opening the next one with it; C25 fails for it.
RECURSIVE group_pins_closing(_, _, _, _, _)
group_pins_closing(rhs, is_or, k, ors, ands) ==
  IF k > Len(rhs) \/ k > Len(is_or) THEN Append(ors, ands)
  ELSE IF is_or[k] THEN group_pins_closing(rhs, is_or, k + 1, Append(ors, Append(ands, rhs[k])), <<>>)
  ELSE group_pins_closing(rhs, is_or, k + 1, ors, Append(ands, rhs[k]))

\* The loop of eqn_to_term: rhs zipped with is_or, from the k-th pair on.
RECURSIVE group_pins(_, _, _, _, _)
group_pins(rhs, is_or, k, ors, ands) ==
  IF k > Len(rhs) \/ k > Len(is_or) THEN Append(ors, ands)
  ELSE IF is_or[k] THEN group_pins(rhs, is_or, k + 1, Append(ors, ands), <<rhs[k]>>)
  ELSE group_pins(rhs, is_or, k + 1, ors, Append(ands, rhs[k]))

\* A variant of eqn_to_term that refuses a negated power pin wherever it
\* stands; C8 fails for it.
eqn_to_term_strict(c, eqn) ==
  IF \E k \in 1..Len(eqn.rhs) : eqn.rhs[k].neg /\ eqn.rhs[k].pin \in {num_pins(c), num_pins(c) \div 2}
  THEN Err("InvertedPower")
  ELSE IF Len(eqn.rhs) = 1 /\ eqn.rhs[1].pin = num_pins(c) THEN Ok(true_term(eqn.line_num))
  ELSE IF Len(eqn.rhs) = 1 /\ eqn.rhs[1].pin = num_pins(c) \div 2 THEN Ok(false_term(eqn.line_num))
  ELSE Ok(MkTerm(eqn.line_num, group_pins(eqn.rhs, eqn.is_or, 1, <<>>, <<>>)))

\* eqn_to_term
eqn_to_term(c, eqn) ==
  IF Len(eqn.rhs) = 1 /\ eqn.rhs[1].pin = num_pins(c)
  THEN (IF eqn.rhs[1].neg THEN Err("InvertedPower") ELSE Ok(true_term(eqn.line_num)))
  ELSE IF Len(eqn.rhs) = 1 /\ eqn.rhs[1].pin = num_pins(c) \div 2
  THEN (IF eqn.rhs[1].neg THEN Err("InvertedPower") ELSE Ok(false_term(eqn.line_num)))
  ELSE Ok(MkTerm(eqn.line_num, group_pins(eqn.rhs, eqn.is_or, 1, <<>>, <<>>)))

\* The first loop of Blueprint::add_equation: every OLMC whose pin is on
\* the right-hand side provides feedback.
mark_feedback(c, os, rhs) ==
  [i \in DOMAIN os |->
     IF \E k \in 1..Len(rhs) : pin_to_olmc(c, rhs[k].pin) = [some |-> TRUE, val |-> i]
     THEN [os[i] EXCEPT !.feedback = TRUE] ELSE os[i]]

\* The match on the suffix in Blueprint::add_equation.
set_by_suffix(olmc, pin, term, suffix) ==
  CASE suffix = "R" -> set_base(olmc, pin, term, "Registered")
    [] suffix = "None" -> set_base(olmc, pin, term, "Combinatorial")
    [] suffix = "T" -> set_base(olmc, pin, term, "Tristate")
    [] suffix = "E" -> set_enable(olmc, pin, term)
    [] suffix = "CLK" -> set_clock(olmc, pin, term)
    [] suffix = "ARST" -> set_arst(olmc, pin, term)
    [] suffix = "APRST" -> set_aprst(olmc, pin, term)

\* A variant of add_equation that marks the feedback last, once the
\* equation is accepted; C20 fails for it.
add_equation_mark_last(c, os, a, s, eqn) ==
  LET t == eqn_to_term(c, eqn)
      o == pin_to_olmc(c, eqn.lhs.pin.pin)
      r == set_by_suffix(os[o.val], eqn.lhs.pin, t.val, eqn.lhs.suffix)
      os1 == mark_feedback(c, os, eqn.rhs)
  IN IF ~t.ok THEN [olmcs |-> os, ar |-> a, sp |-> s, res |-> t]
     ELSE CASE eqn.lhs.kind = "Ar" ->
                 (IF IsSome(a) THEN [olmcs |-> os, ar |-> a, sp |-> s, res |-> Err("RepeatedARSP")]
                  ELSE [olmcs |-> os1, ar |-> t.val, sp |-> s, res |-> Ok(0)])
            [] eqn.lhs.kind = "Sp" ->
                 (IF IsSome(s) THEN [olmcs |-> os, ar |-> a, sp |-> s, res |-> Err("RepeatedARSP")]
                  ELSE [olmcs |-> os1, ar |-> a, sp |-> t.val, res |-> Ok(0)])
            [] eqn.lhs.kind = "Pin" ->
                 (IF ~o.some THEN [olmcs |-> os, ar |-> a, sp |-> s, res |-> Err("NotAnOutput")]
                  ELSE IF ~r.res.ok THEN [olmcs |-> os, ar |-> a, sp |-> s, res |-> r.res]
                  ELSE [olmcs |-> mark_feedback(c, [os EXCEPT ![o.val] = r.olmc], eqn.rhs), ar |-> a, sp |-> s, res |-> r.res])

\* Blueprint::add_equation on the blueprint (os, a, s) of chip c: the new
\* blueprint and the Result.
add_equation(c, os, a, s, eqn) ==
  LET os1 == mark_feedback(c, os, eqn.rhs)
      t == eqn_to_term(c, eqn)
      o == pin_to_olmc(c, eqn.lhs.pin.pin)
      r == set_by_suffix(os1[o.val], eqn.lhs.pin, t.val, eqn.lhs.suffix)
  IN IF ~t.ok THEN [olmcs |-> os1, ar |-> a, sp |-> s, res |-> t]
     ELSE CASE eqn.lhs.kind = "Ar" ->
                 (IF IsSome(a) THEN [olmcs |-> os1, ar |-> a, sp |-> s, res |-> Err("RepeatedARSP")]
                  ELSE [olmcs |-> os1, ar |-> t.val, sp |-> s, res |-> Ok(0)])
            [] eqn.lhs.kind = "Sp" ->
                 (IF IsSome(s) THEN [olmcs |-> os1, ar |-> a, sp |-> s, res |-> Err("RepeatedARSP")]
                  ELSE [olmcs |-> os1, ar |-> a, sp |-> t.val, res |-> Ok(0)])
            [] eqn.lhs.kind = "Pin" ->
                 (IF ~o.some THEN [olmcs |-> os1, ar |-> a, sp |-> s, res |-> Err("NotAnOutput")]
                  ELSE [olmcs |-> [os1 EXCEPT ![o.val] = r.olmc], ar |-> a, sp |-> s, res |-> r.res])

----------------------------------------------------------------------------
(* olmc.rs: mode analysis.  olmc.rs spells the output modes Undriven,
   ComTriOut, TriOut, RegOut and ComOut; here they are None,
   "Combinatorial", "Tristate", "Registered" and "ComOut", and the modes
   Mode1, Mode2, Mode3 are "Simple", "Complex", "Registered". *)

HasMode(olmc, m) == IsSome(olmc.output) /\ olmc.output.mode = m

\* A variant of get_mode_v8 that does not look at the feedback flags; C1
\* fails for it.
get_mode_v8_no_feedback(c, os) ==
  IF \E n \in 0..7 : HasMode(os[n], "Registered") THEN "Registered"
  ELSE IF \E n \in 0..7 : HasMode(os[n], "Tristate") THEN "Complex"
  ELSE "Simple"

\* A variant of get_mode_v8 that keeps the Simple mode when an OLMC without
\* an output provides feedback; C19 fails for it.
get_mode_v8_driven_feedback(c, os) ==
  IF \E n \in 0..7 : HasMode(os[n], "Registered") THEN "Registered"
  ELSE IF \E n \in 0..7 : HasMode(os[n], "Tristate") THEN "Complex"
  ELSE IF \E n \in 0..7 : os[n].feedback /\ HasMode(os[n], "Combinatorial") THEN "Complex"
  ELSE "Simple"

\* get_mode_v8
get_mode_v8(c, os) ==
  IF \E n \in 0..7 : HasMode(os[n], "Registered") THEN "Registered"
  ELSE IF \E n \in 0..7 : HasMode(os[n], "Tristate") THEN "Complex"
  ELSE IF \E n \in 0..7 :
            \/ /\ os[n].feedback /\ ~IsSome(os[n].output)
               /\ \/ c = "GAL16V8" /\ (n + 12 = 15 \/ n + 12 = 16)
                  \/ c = "GAL20V8" /\ (n + 15 = 18 \/ n + 15 = 19)
            \/ os[n].feedback /\ HasMode(os[n], "Combinatorial")
       THEN "Complex"
  ELSE "Simple"

\* A variant of analyse_mode_v8 that finds the mode and does not set it;
\* C27 fails for it.
analyse_mode_v8_unset(g, os) == [gal |-> g, res |-> Ok(0)]

\* analyse_mode_v8: the new fuse state and whether set_mode returned.
analyse_mode_v8(g, os) == set_mode(g, get_mode_v8(g.chip, os))

\* A variant of tristate_bit that sets no bit for an OLMC without an
\* output; C22 fails for it.
tristate_bit_driven(olmc) ==
  IF ~IsSome(olmc.output) THEN FALSE ELSE olmc.output.mode = "Tristate"

\* The condition under which analyse_mode sets the AC1 / S1 bit of an OLMC.
tristate_bit(olmc) ==
  IF ~IsSome(olmc.output) THEN olmc.feedback ELSE olmc.output.mode = "Tristate"

\* A variant of xor_bit that sets the bit of every OLMC with an output;
\* C23 fails for it.
xor_bit_any_output(olmc) == IsSome(olmc.output)

\* The condition under which analyse_mode sets the XOR bit of an OLMC.
xor_bit(olmc) == IsSome(olmc.output) /\ olmc.active = "High"

\* analyse_mode: the new fuse state and the new OLMCs.
analyse_mode(g, os) ==
  IF g.chip \in {"GAL16V8", "GAL20V8"}
  THEN LET g1 == analyse_mode_v8(g, os).gal
           mode == get_mode(g1)
           os1 == [n \in DOMAIN os |->
                     IF HasMode(os[n], "Combinatorial")
                     THEN (IF mode = "Simple" THEN [os[n] EXCEPT !.output.mode = "ComOut"]
                           ELSE [os[n] EXCEPT !.output.mode = "Tristate", !.tri_con = true_term(os[n].output.term.line_num)])
                     ELSE os[n]]
       IN [gal |-> [g1 EXCEPT !.pt = VecOf(64, TRUE),
                              !.ac1 = [i \in 0..7 |-> g1.ac1[i] \/ tristate_bit(os1[7 - i])],
                              !.xor = [i \in 0..7 |-> g1.xor[i] \/ xor_bit(os1[7 - i])]],
           olmcs |-> os1]
  ELSE LET os1 == [n \in DOMAIN os |->
                     IF HasMode(os[n], "Combinatorial") THEN [os[n] EXCEPT !.output.mode = "Tristate"] ELSE os[n]]
       IN IF g.chip = "GAL22V10"
          THEN [gal |-> [g EXCEPT !.xor = [i \in 0..9 |-> g.xor[i] \/ xor_bit(os1[9 - i])],
                                  !.ac1 = [i \in 0..9 |-> g.ac1[i] \/ tristate_bit(os1[9 - i])]],
                olmcs |-> os1]
          ELSE [gal |-> [g EXCEPT !.xor = [i \in 0..9 |-> g.xor[i] \/ xor_bit(os1[9 - i])]],
                olmcs |-> os1]

----------------------------------------------------------------------------
(* gal_builder.rs: the bounds of each kind of term and the second pass *)

\* A variant of get_bounds that starts the main term of a GAL16V8 or
\* GAL20V8 OLMC at its first row in every mode; C24 fails for it.
get_bounds_first_row(g, act_olmc, os, suffix) ==
  LET start_row == start_row_for_olmc(g.chip, act_olmc)
      max_row == num_rows_for_olmc(g.chip, act_olmc)
      mk(m, o) == [start_row |-> start_row, max_row |-> m, row_offset |-> o]
  IN CASE g.chip \in {"GAL16V8", "GAL20V8"} ->
            (IF suffix = "E" THEN Ok(mk(1, 0)) ELSE Ok(mk(max_row, 0)))
       [] g.chip = "GAL22V10" ->
            (IF suffix = "E" THEN Ok(mk(1, 0))
             ELSE IF act_olmc = 10 \/ act_olmc = 11 THEN Ok(mk(1, 0))
             ELSE Ok(mk(max_row, 1)))
       [] g.chip = "GAL20RA10" ->
            (CASE suffix = "E" -> Ok(mk(1, 0))
               [] suffix = "CLK" -> Ok(mk(2, 1))
               [] suffix = "ARST" -> Ok(mk(3, 2))
               [] suffix = "APRST" -> Ok(mk(4, 3))
               [] OTHER -> Ok(mk(max_row, 4)))

\* get_bounds: Ok with the bounds, or the panic of jedec.get_mode() on a
\* GAL16V8 or GAL20V8 whose mode is not set.
get_bounds(g, act_olmc, os, suffix) ==
  LET start_row == start_row_for_olmc(g.chip, act_olmc)
      max_row == num_rows_for_olmc(g.chip, act_olmc)
      mk(m, o) == [start_row |-> start_row, max_row |-> m, row_offset |-> o]
  IN CASE g.chip \in {"GAL16V8", "GAL20V8"} ->
            (IF suffix = "E" THEN Ok(mk(1, 0))
             ELSE IF get_mode(g) = "Panic" THEN Err("Panic")
             ELSE IF get_mode(g) # "Simple" /\ ~HasMode(os[act_olmc], "Registered") THEN Ok(mk(max_row, 1))
             ELSE Ok(mk(max_row, 0)))
       [] g.chip = "GAL22V10" ->
            (IF suffix = "E" THEN Ok(mk(1, 0))
             ELSE IF act_olmc = 10 \/ act_olmc = 11 THEN Ok(mk(1, 0))
             ELSE Ok(mk(max_row, 1)))
       [] g.chip = "GAL20RA10" ->
            (CASE suffix = "E" -> Ok(mk(1, 0))
               [] suffix = "CLK" -> Ok(mk(2, 1))
               [] suffix = "ARST" -> Ok(mk(3, 2))
               [] suffix = "APRST" -> Ok(mk(4, 3))
               [] OTHER -> Ok(mk(max_row, 4)))

\* The i32 codes gal_builder.rs returns, under the names of the errors of
\* errors.rs whose messages the regression tests expect for them.  26
\* stands for every pin that cannot be used as an input, whatever the chip
\* and mode; 19 and 48 stand for every control suffix.
code_name(n) ==
  CASE n = 15 -> "NotAnOutput"
    [] n = 16 -> "RepeatedOutput"
    [] n \in {17, 42, 43, 44} -> "UndefinedOutput"
    [] n = 19 -> "InvertedControl"
    [] n \in {22, 45, 46, 47} -> "RepeatedControl"
    [] n = 23 -> "TristateReg"
    [] n = 24 -> "UnmatchedTristate"
    [] n = 25 -> "InvertedPower"
    [] n = 26 -> "NotAnInput"
    [] n = 28 -> "BadPower"
    [] n = 30 -> "TooManyProducts"
    [] n = 40 -> "RepeatedARSP"
    [] n = 41 -> "NoCLK"
    [] n = 48 -> "InvalidControl"

\* The suffix the code names.
code_suffix(n) ==
  CASE n \in {17, 22} -> "E"
    [] n \in {42, 45} -> "CLK"
    [] n \in {43, 46} -> "ARST"
    [] n \in {44, 47} -> "APRST"
    [] OTHER -> ""

\* Err(n) of register_output
ErrI(n) == [ok |-> FALSE, val |-> n, code |-> code_name(n), suffix |-> code_suffix(n)]

\* line_num * 0x10000 + n as do_it_all computes it, in an i32: the error
\* of the code n at that line (a bare Err(n) is the line 0).  From line
\* 32768 on the sum is more than an i32 holds: the error then has the code
\* "Overflow", for i32_outcomes to resolve.
i32_error(line_num, n) ==
  IF line_num > 32767
  THEN [code |-> "Overflow", suffix |-> "", line |-> line_num, val |-> n]
  ELSE [code |-> code_name(n), suffix |-> code_suffix(n), line |-> line_num]

\* What do_it_all returns for the error e: an overflow panics in a build
\* with overflow checks and wraps in a build without them, which leaves
\* the code in the lower half of the i32 and the line, wrapped to 16 bits
\* with a sign, in the upper half.
i32_outcomes(e) ==
  IF e.code # "Overflow" THEN {e}
  ELSE {Panic,
        [code |-> code_name(e.val), suffix |-> code_suffix(e.val), line |-> ((e.line + 32768) % 65536) - 32768]}

\* Err(eqn.line_num * 0x10000 + err) of do_it_all.
err_in_line(g, line_num, n) == [gal |-> g, err |-> i32_error(line_num, n)]

\* The OLMC do_stuff creates, every field 0: the pin type NOTUSED, the
\* polarity ACTIVE_LOW, no control term, no feedback, no equation.
BuilderOLMC ==
  [active |-> "Low", pin_type |-> "NOTUSED", tri_con |-> 0, clock |-> 0, arst |-> 0, aprst |-> 0, feedback |-> 0, eqns |-> <<>>]

\* vec!(OLMC {...}; 12) of do_stuff
BuilderOLMCs == [n \in 0..11 |-> BuilderOLMC]

\* mark_input
mark_input(c, os, act_pin) ==
  LET n == pin_to_olmc(c, act_pin.pin)
  IN IF ~n.some THEN os
     ELSE [os EXCEPT ![n.val].pin_type = IF @ = "NOTUSED" THEN "INPUT" ELSE @, ![n.val].feedback = 1]

\* The loop of do_it_all over the right-hand side, from the k-th input on.
RECURSIVE mark_inputs(_, _, _, _)
mark_inputs(c, os, rhs, k) ==
  IF k > Len(rhs) THEN os ELSE mark_inputs(c, mark_input(c, os, rhs[k]), rhs, k + 1)

\* register_output_base
register_output_base(c, olmc, act_pin, suffix, is_arsp) ==
  IF olmc.pin_type = "NOTUSED" \/ olmc.pin_type = "INPUT"
  THEN [olmc |-> [olmc EXCEPT !.active = IF act_pin.neg THEN "Low" ELSE "High",
                              !.pin_type = CASE suffix = "T" -> "TRIOUT"
                                             [] suffix = "R" -> "REGOUT"
                                             [] suffix = "None" -> "COM_TRI_OUT"
                                             [] OTHER -> @],
        res |-> Ok(0)]
  ELSE [olmc |-> olmc, res |-> IF c = "GAL22V10" /\ is_arsp THEN ErrI(40) ELSE ErrI(16)]

\* A variant of register_output_enable that lets a registered output of a
\* GAL16V8 or GAL20V8 have an enable term; C4 fails for it.
register_output_enable_any_chip(c, olmc, act_pin) ==
  IF act_pin.neg THEN [olmc |-> olmc, res |-> ErrI(19)]
  ELSE IF olmc.tri_con # 0 THEN [olmc |-> olmc, res |-> ErrI(22)]
  ELSE [olmc |-> [olmc EXCEPT !.tri_con = 1],
        res |-> IF olmc.pin_type = "NOTUSED" \/ olmc.pin_type = "INPUT" THEN ErrI(17)
                ELSE IF olmc.pin_type = "COM_TRI_OUT" THEN ErrI(24)
                ELSE Ok(0)]

\* register_output_enable: the flag is set before the pin type is looked
\* at.
register_output_enable(c, olmc, act_pin) ==
  IF act_pin.neg THEN [olmc |-> olmc, res |-> ErrI(19)]
  ELSE IF olmc.tri_con # 0 THEN [olmc |-> olmc, res |-> ErrI(22)]
  ELSE [olmc |-> [olmc EXCEPT !.tri_con = 1],
        res |-> IF olmc.pin_type = "NOTUSED" \/ olmc.pin_type = "INPUT" THEN ErrI(17)
                ELSE IF olmc.pin_type = "REGOUT" /\ (c = "GAL16V8" \/ c = "GAL20V8") THEN ErrI(23)
                ELSE IF olmc.pin_type = "COM_TRI_OUT" THEN ErrI(24)
                ELSE Ok(0)]

\* register_output_clock: an OLMC that is only an input passes the first
\* test.
register_output_clock(olmc, act_pin) ==
  IF act_pin.neg THEN [olmc |-> olmc, res |-> ErrI(19)]
  ELSE IF olmc.pin_type = "NOTUSED" THEN [olmc |-> olmc, res |-> ErrI(42)]
  ELSE IF olmc.clock # 0 THEN [olmc |-> olmc, res |-> ErrI(45)]
  ELSE [olmc |-> [olmc EXCEPT !.clock = 1], res |-> IF olmc.pin_type # "REGOUT" THEN ErrI(48) ELSE Ok(0)]

\* register_output_arst
register_output_arst(olmc, act_pin) ==
  IF act_pin.neg THEN [olmc |-> olmc, res |-> ErrI(19)]
  ELSE IF olmc.pin_type = "NOTUSED" THEN [olmc |-> olmc, res |-> ErrI(43)]
  ELSE IF olmc.arst # 0 THEN [olmc |-> olmc, res |-> ErrI(46)]
  ELSE [olmc |-> [olmc EXCEPT !.arst = 1], res |-> IF olmc.pin_type # "REGOUT" THEN ErrI(48) ELSE Ok(0)]

\* register_output_aprst
register_output_aprst(olmc, act_pin) ==
  IF act_pin.neg THEN [olmc |-> olmc, res |-> ErrI(19)]
  ELSE IF olmc.pin_type = "NOTUSED" THEN [olmc |-> olmc, res |-> ErrI(44)]
  ELSE IF olmc.aprst # 0 THEN [olmc |-> olmc, res |-> ErrI(47)]
  ELSE [olmc |-> [olmc EXCEPT !.aprst = 1], res |-> IF olmc.pin_type # "REGOUT" THEN ErrI(48) ELSE Ok(0)]

\* The match on the suffix in register_output, for the OLMC of the pin.
register_output_suffix(c, olmc, act_pin, suffix, is_arsp) ==
  CASE suffix \in {"R", "T", "None"} -> register_output_base(c, olmc, act_pin, suffix, is_arsp)
    [] suffix = "E" -> register_output_enable(c, olmc, act_pin)
    [] suffix = "CLK" -> register_output_clock(olmc, act_pin)
    [] suffix = "ARST" -> register_output_arst(olmc, act_pin)
    [] suffix = "APRST" -> register_output_aprst(olmc, act_pin)
    [] OTHER -> [olmc |-> olmc, res |-> Err("Panic")]

\* register_output: the new OLMCs and the Result.
register_output(c, os, act_pin, suffix) ==
  LET n == pin_to_olmc(c, act_pin.pin)
      r == register_output_suffix(c, os[n.val], act_pin, suffix, n.val >= 10)
  IN IF ~n.some THEN [olmcs |-> os, res |-> ErrI(15)]
     ELSE [olmcs |-> [os EXCEPT ![n.val] = r.olmc], res |-> r.res]

\* The body of the first loop of do_it_all: the equation is pushed onto
\* the OLMC of its left-hand side, its output is registered and its inputs
\* are marked.  An equation whose left-hand side is no pin of an OLMC, as
\* that of every AR and SP equation, is the bare Err(15); an error of
\* register_output is given the line of the equation.
first_pass_eqn(c, os, eqn) ==
  LET n == pin_to_olmc(c, eqn.lhs.pin.pin)
      os1 == [os EXCEPT ![n.val].eqns = Append(@, eqn)]
      r == register_output(c, os1, eqn.lhs.pin, eqn.lhs.suffix)
  IN IF ~n.some THEN [olmcs |-> os, err |-> i32_error(0, 15)]
     ELSE IF r.res.code = "Panic" THEN [olmcs |-> r.olmcs, err |-> Panic]
     ELSE IF ~r.res.ok THEN [olmcs |-> r.olmcs, err |-> i32_error(eqn.line_num, r.res.val)]
     ELSE [olmcs |-> mark_inputs(c, r.olmcs, eqn.rhs, 1), err |-> NoError]

\* The first loop of do_it_all over the slice of equations, from the k-th
\* on; it returns at the first error.
RECURSIVE first_pass(_, _, _, _)
first_pass(c, os, eqns, k) ==
  IF k > Len(eqns) THEN [olmcs |-> os, err |-> NoError]
  ELSE LET r == first_pass_eqn(c, os, eqns[k])
       IN IF r.err # NoError THEN r ELSE first_pass(c, r.olmcs, eqns, k + 1)

\* `?`: nothing more is written once an error is returned.
then_clear(r, bounds) == IF r.err # NoError THEN r ELSE after_clear(clear_rows(r.gal, bounds))

\* set_and of gal_builder.rs: the fuse of the pin in the row is cleared.
\* Every error of pin_to_column becomes the code 26; its panics stay.
gal_builder_set_and(g, row, pin_num, negation) ==
  LET column == pin_to_column(g, pin_num)
      flip == g.chip = "GAL22V10" /\ pin_num >= 14 /\ pin_num <= 23 /\ ~g.ac1[23 - pin_num]
  IN IF ~column.ok
     THEN [gal |-> g, res |-> IF column.code = "Panic" THEN column ELSE ErrI(26)]
     ELSE clear_fuse(g, row * num_cols(g.chip) + column.val + (IF negation # flip THEN 1 ELSE 0), num_cols(g.chip))

\* jedec.clear_row(start_row, row_offset), as the bounds of that row.
row_bounds(start_row, row_offset) == [start_row |-> start_row, max_row |-> row_offset + 1, row_offset |-> row_offset]

\* The loop of add_equation over the right-hand side, from the i-th input
\* on, b being the bounds with the row reached: a power pin is refused
\* first, then an OR moves to the next row, which must exist, then the
\* fuse of the input is cleared.  After the loop row_offset += 1, and the
\* rows left are cleared.
RECURSIVE add_equation_rhs(_, _, _, _)
add_equation_rhs(g, eqn, b, i) ==
  IF i > Len(eqn.rhs) THEN after_clear(clear_rows(g, [b EXCEPT !.row_offset = @ + 1]))
  ELSE IF eqn.rhs[i].pin = num_pins(g.chip) \/ eqn.rhs[i].pin = num_pins(g.chip) \div 2
  THEN err_in_line(g, eqn.line_num, 28)
  ELSE IF eqn.is_or[i] /\ b.row_offset + 1 = b.max_row
  THEN err_in_line(g, eqn.line_num, 30)
  ELSE LET r == gal_builder_set_and(g, b.start_row + b.row_offset + (IF eqn.is_or[i] THEN 1 ELSE 0), eqn.rhs[i].pin, eqn.rhs[i].neg)
       IN IF ~r.res.ok
          THEN (IF r.res.code = "Panic" THEN [gal |-> r.gal, err |-> Panic] ELSE err_in_line(r.gal, eqn.line_num, r.res.val))
          ELSE add_equation_rhs(r.gal, eqn, [b EXCEPT !.row_offset = @ + (IF eqn.is_or[i] THEN 1 ELSE 0)], i + 1)

\* add_equation of gal_builder.rs, and the line do_it_all gives its error:
\* the OLMC of the left-hand side (unwrap panics if the pin has none) and
\* its bounds; then a lone GND clears its row, a lone VCC leaves it, a lone
\* /VCC or /GND is the code 25, and any other right-hand side is written
\* input by input; the rows left are cleared.
gal_builder_add_equation(r, os, eqn) ==
  IF r.err # NoError THEN r
  ELSE LET g == r.gal
           act_olmc == pin_to_olmc(g.chip, eqn.lhs.pin.pin)
           b == get_bounds(g, act_olmc.val, os, eqn.lhs.suffix)
           row == clear_rows(g, row_bounds(b.val.start_row, b.val.row_offset))
       IN IF ~act_olmc.some THEN [gal |-> g, err |-> Panic]
          ELSE IF ~b.ok THEN [gal |-> g, err |-> Panic]
          ELSE IF Len(eqn.rhs) = 1 /\ (eqn.rhs[1].pin = num_pins(g.chip) \/ eqn.rhs[1].pin = num_pins(g.chip) \div 2)
          THEN (IF eqn.rhs[1].neg THEN err_in_line(g, eqn.line_num, 25)
                ELSE IF eqn.rhs[1].pin = num_pins(g.chip) \div 2
                THEN (IF row.res.ok THEN after_clear(clear_rows(row.gal, [b.val EXCEPT !.row_offset = @ + 1]))
                      ELSE after_clear(row))
                ELSE after_clear(clear_rows(g, [b.val EXCEPT !.row_offset = @ + 1])))
          ELSE add_equation_rhs(g, eqn, b.val, 1)

\* olmcs[n].eqns of do_it_all: the equations the first pass has pushed
\* onto the OLMC, in the order of the slice.
olmc_eqns(b, n) == b[n].eqns

\* The inner loop of do_it_all: add_equation for the equations of an OLMC,
\* from the k-th on.
RECURSIVE add_equations(_, _, _, _)
add_equations(r, os, eqns, k) ==
  IF k > Len(eqns) THEN r
  ELSE CHOOSE w \in { add_equations(v, os, eqns, k + 1) : v \in {gal_builder_add_equation(r, os, eqns[k])} } : TRUE

\* jedec.clear_olmc(olmc): start_row_for_olmc reads the row table of the
\* chip at olmc, which panics past its end.
clear_olmc(r, olmc) ==
  IF r.err # NoError THEN r
  ELSE IF olmc >= Len(get_chip_data(r.gal.chip).olmc_map) THEN [gal |-> r.gal, err |-> Panic]
  ELSE then_clear(r, chip_get_bounds(r.gal.chip, olmc))

\* The rows do_it_all clears for a GAL20RA10 OLMC that is used: the row
\* of a missing clock and, for a registered output, those of a missing
\* ARST and APRST.
clear_missing(g, olmc, n) ==
  LET r0 == [gal |-> g, err |-> NoError]
      start_row == start_row_for_olmc(g.chip, n)
      r1 == IF olmc.clock = 0 THEN then_clear(r0, row_bounds(start_row, 1)) ELSE r0
      r2 == IF olmc.pin_type = "REGOUT" /\ olmc.arst = 0 THEN then_clear(r1, row_bounds(start_row, 2)) ELSE r1
  IN IF olmc.pin_type = "REGOUT" /\ olmc.aprst = 0 THEN then_clear(r2, row_bounds(start_row, 3)) ELSE r2

\* The GAL20RA10 part of the body of the loop of do_it_all, for the OLMC
\* of the fuse builder.  A registered output without clock is the bare
\* Err(41): the code, and no line.  Only an OLMC that is NOTUSED is left
\* alone: the clock row of an INPUT is cleared once more.
finish_gal20ra10(r, olmc, n) ==
  IF r.err # NoError \/ r.gal.chip # "GAL20RA10" \/ olmc.pin_type = "NOTUSED" THEN r
  ELSE IF olmc.pin_type = "REGOUT" /\ olmc.clock = 0 THEN err_in_line(r.gal, 0, 41)
  ELSE clear_missing(r.gal, olmc, n)

\* jedec.clear_olmc(n) for an OLMC that is not an output.
clear_unused(r, olmc, n) ==
  IF olmc.pin_type = "NOTUSED" \/ olmc.pin_type = "INPUT" THEN clear_olmc(r, n) ELSE r

\* The second loop of do_it_all, from OLMC n on: os are the OLMCs as the
\* mode analysis left them, b those of the first pass, which hold the
\* equations, the pin types and the flags of the control terms.
RECURSIVE write_olmcs(_, _, _, _)
write_olmcs(r, os, b, n) ==
  IF n \notin DOMAIN os THEN r
  ELSE CHOOSE w \in { write_olmcs(v, os, b, n + 1) :
                        v \in {finish_gal20ra10(clear_unused(add_equations(r, os, olmc_eqns(b, n), 1), b[n], n), b[n], n)} } : TRUE

\* jedec.clear_olmc(n) for the OLMC 10 or 11 if its pin type is 0.
clear_arsp(r, olmc, n) ==
  IF olmc.pin_type = "NOTUSED" THEN clear_olmc(r, n) ELSE r

\* The GAL22V10 part of do_it_all: the equations of the OLMCs 10 and 11,
\* which stand for AR and SP, and clear_olmc for each of the two that has
\* no output.  pin_to_olmc gives no pin the OLMC 10 or 11, so neither has
\* an equation or an output.
write_arsp(r, os, b) ==
  IF r.gal.chip # "GAL22V10" THEN r
  ELSE clear_arsp(add_equations(clear_arsp(add_equations(r, os, olmc_eqns(b, 10), 1), b[10], 10),
                                os, olmc_eqns(b, 11), 1), b[11], 11)

\* The second pass of do_it_all: every OLMC in turn, then AR and SP on the
\* GAL22V10.
write_terms(g, os, b) == write_arsp(write_olmcs([gal |-> g, err |-> NoError], os, b, 0), os, b)

----------------------------------------------------------------------------
(* writer.rs: the fuse checksum of the JEDEC file *)

\* CheckSummer::new
CheckSummer_new == [bit_num |-> 0, byte |-> 0, sum |-> 0]

\* byte | (1 << bit_num) on a u8
or_shift(byte, bit_num) ==
  IF (byte \div (2 ^ bit_num)) % 2 = 1 THEN byte ELSE (byte + 2 ^ bit_num) % 256

\* CheckSummer::add: the bit enters the byte at position bit_num; the
\* eighth bit adds the byte to the sum with wrapping_add.
CheckSummer_add(cs, bit) ==
  IF cs.bit_num + 1 = 8
  THEN [bit_num |-> 0, byte |-> 0, sum |-> (cs.sum + (IF bit THEN or_shift(cs.byte, cs.bit_num) ELSE cs.byte)) % 65536]
  ELSE [bit_num |-> cs.bit_num + 1, byte |-> (IF bit THEN or_shift(cs.byte, cs.bit_num) ELSE cs.byte), sum |-> cs.sum]

\* CheckSummer::get: self.sum + self.byte as u16, a plain u16 addition.
\* When the sum exceeds 0xffff a build with overflow checks panics and a
\* build without them wraps; both outcomes are given.
CheckSummer_get(cs) ==
  IF cs.sum + cs.byte > 65535
  THEN {[panic |-> TRUE, value |-> 0], [panic |-> FALSE, value |-> (cs.sum + cs.byte) % 65536]}
  ELSE {[panic |-> FALSE, value |-> cs.sum + cs.byte]}

\* FuseBuilder::new; buf holds the *L lines written so far.
FuseBuilder_new == [buf |-> <<>>, checksum |-> CheckSummer_new, idx |-> 0]

\* Eight rounds of the loop of add_iter and skip_iter, for the bits i..i+7.
add_bits8(cs, data, i) ==
  CheckSummer_add(CheckSummer_add(CheckSummer_add(CheckSummer_add(
    CheckSummer_add(CheckSummer_add(CheckSummer_add(CheckSummer_add(cs,
      data[i]), data[i + 1]), data[i + 2]), data[i + 3]),
      data[i + 4]), data[i + 5]), data[i + 6]), data[i + 7])

\* The loop of add_iter and skip_iter over the bits from the i-th on, taken
\* eight rounds at a time while eight bits are left; the loop goes on from
\* the value v of the CheckSummer after the rounds taken.
RECURSIVE add_bits(_, _, _)
add_bits(cs, data, i) ==
  IF i \notin DOMAIN data THEN cs
  ELSE IF i + 7 \in DOMAIN data
  THEN CHOOSE r \in { add_bits(v, data, i + 8) : v \in {add_bits8(cs, data, i)} } : TRUE
  ELSE CHOOSE r \in { add_bits(v, data, i + 1) : v \in {CheckSummer_add(cs, data[i])} } : TRUE

\* FuseBuilder::add_iter (and FuseBuilder::add)
FuseBuilder_add_iter(fb, data) ==
  [buf |-> Append(fb.buf, [idx |-> fb.idx, bits |-> data]),
   checksum |-> add_bits(fb.checksum, data, 0),
   idx |-> fb.idx + Cardinality(DOMAIN data)]

\* A variant of skip_iter that leaves the offset and the checksum alone;
\* C12 fails for it.
FuseBuilder_skip_iter_idle(fb, data) == fb

\* FuseBuilder::skip_iter
FuseBuilder_skip_iter(fb, data) ==
  [buf |-> fb.buf,
   checksum |-> add_bits(fb.checksum, data, 0),
   idx |-> fb.idx + Cardinality(DOMAIN data)]

\* itertools::interleave of two vectors of one length
interleave(a, b) ==
  [i \in 0..(2 * Cardinality(DOMAIN a) - 1) |-> IF i % 2 = 0 THEN a[i \div 2] ELSE b[i \div 2]]

\* One round of the loop of make_jedec over the rows of the fuse grid.
jedec_row(fb, row) ==
  IF \E c \in DOMAIN row : row[c] THEN FuseBuilder_add_iter(fb, row) ELSE FuseBuilder_skip_iter(fb, row)

\* A variant of the XOR step that puts the S1 bit of each OLMC before its
\* XOR bit; C13 fails for it.
jedec_xor_s1_first(fb, g) ==
  IF g.chip # "GAL22V10" THEN FuseBuilder_add_iter(fb, g.xor)
  ELSE FuseBuilder_add_iter(fb, interleave(g.ac1, g.xor))

\* The XOR bits, interleaved with the S1 bits (held in ac1) on GAL22V10.
jedec_xor(fb, g) ==
  IF g.chip # "GAL22V10" THEN FuseBuilder_add_iter(fb, g.xor)
  ELSE FuseBuilder_add_iter(fb, interleave(g.xor, g.ac1))

----------------------------------------------------------------------------
(* writer.rs: the text of the JEDEC file.  A String is a sequence of
   characters, each a one-character string; "STX" and "ETX" stand for the
   control characters \x02 and \x03. *)

Digits == <<"0", "1", "2", "3", "4", "5", "6", "7", "8", "9">>

UpperCase == <<"A", "B", "C", "D", "E", "F", "G", "H", "I", "J", "K", "L", "M", "N", "O", "P", "Q", "R", "S", "T", "U", "V", "W", "X", "Y", "Z">>

LowerCase == <<"a", "b", "c", "d", "e", "f", "g", "h", "i", "j", "k", "l", "m", "n", "o", "p", "q", "r", "s", "t", "u", "v", "w", "x", "y", "z">>

\* The place of a character in a table.
IndexIn(t, c) == CHOOSE i \in 1..Len(t) : t[i] = c

InTable(t, c) == \E i \in 1..Len(t) : t[i] = c

\* The characters the writer emits.
Characters ==
  {Digits[i] : i \in 1..10} \cup {UpperCase[i] : i \in 1..26} \cup {LowerCase[i] : i \in 1..26}
  \cup {"STX", "ETX", "\n", " ", "*", "-", ".", ":"}

\* The byte of each character (all are ASCII).
ascii ==
  [c \in Characters |->
     CASE InTable(Digits, c) -> 47 + IndexIn(Digits, c)
       [] InTable(UpperCase, c) -> 64 + IndexIn(UpperCase, c)
       [] InTable(LowerCase, c) -> 96 + IndexIn(LowerCase, c)
       [] c = "STX" -> 2
       [] c = "ETX" -> 3
       [] c = "\n" -> 10
       [] c = " " -> 32
       [] c = "*" -> 42
       [] c = "-" -> 45
       [] c = "." -> 46
       [] c = ":" -> 58]

byte_of(c) == ascii[c]

\* str::as_bytes
as_bytes(s) == [i \in 1..Len(s) |-> byte_of(s[i])]

\* The digits of n in the given base, most significant first.
RECURSIVE digits_of(_, _, _)
digits_of(n, base, table) ==
  IF n < base THEN <<table[n + 1]>>
  ELSE Append(digits_of(n \div base, base, table), table[(n % base) + 1])

\* Padding with zeros on the left to a width of at least 4.
zero_pad4(s) ==
  IF Len(s) >= 4 THEN s ELSE [i \in 1..4 |-> IF i <= 4 - Len(s) THEN "0" ELSE s[i - (4 - Len(s))]]

\* format!("{}", n)
fmt_dec(n) == digits_of(n, 10, Digits)

\* format!("{:04}", n)
fmt_04(n) == zero_pad4(digits_of(n, 10, Digits))

\* format!("{:04x}", n)
fmt_04x(n) == zero_pad4(digits_of(n, 16, Digits \o SubSeq(LowerCase, 1, 6)))

\* Chip::name
chip_name(c) ==
  CASE c = "GAL16V8" -> <<"G", "A", "L", "1", "6", "V", "8">>
    [] c = "GAL20V8" -> <<"G", "A", "L", "2", "0", "V", "8">>
    [] c = "GAL22V10" -> <<"G", "A", "L", "2", "2", "V", "1", "0">>
    [] c = "GAL20RA10" -> <<"G", "A", "L", "2", "0", "R", "A", "1", "0">>

\* env!("CARGO_PKG_VERSION")
CARGO_PKG_VERSION == <<"0", ".", "3", ".", "0">>

\* make_jedec, up to the construction of the FuseBuilder: the header.
jedec_header(cfg, c) ==
  <<"STX", "\n">>
  \o <<"G", "A", "L", "-", "A", "s", "s", "e", "m", "b", "l", "e", "r", ":", " ", " ", "G", "a", "l", "e", "t", "t", "e", " ">>
  \o CARGO_PKG_VERSION \o <<"\n">>
  \o <<"D", "e", "v", "i", "c", "e", ":", " ", " ", " ", " ", " ", " ", " ", " ", " ">> \o chip_name(c) \o <<"\n", "\n">>
  \o <<"*", "F", "0", "\n">>
  \o (IF cfg.jedec_sec_bit THEN <<"*", "G", "1", "\n">> ELSE <<"*", "G", "0", "\n">>)
  \o <<"*", "Q", "F">> \o fmt_dec(total_size(c)) \o <<"\n">>

\* What FuseBuilder::add_iter pushes on the buffer for one line.
line_text(l) ==
  <<"*", "L">> \o fmt_04(l.idx) \o <<" ">>
  \o [i \in 1..Cardinality(DOMAIN l.bits) |-> IF l.bits[i - 1] THEN "1" ELSE "0"]
  \o <<"\n">>

\* The text of the lines lo..hi of the FuseBuilder's buffer.
RECURSIVE lines_text(_, _, _)
lines_text(buf, lo, hi) ==
  IF lo > hi THEN <<>>
  ELSE IF lo = hi THEN line_text(buf[lo])
  ELSE lines_text(buf, lo, (lo + hi) \div 2) \o lines_text(buf, (lo + hi) \div 2 + 1, hi)

\* What FuseBuilder::checksum pushes on the buffer.
checksum_text(value) == <<"*", "C">> \o fmt_04x(value) \o <<"\n">>

\* u16::wrapping_add
wrapping_add(a, b) == (a + b) % 65536

\* A variant of the closure of file_checksum that adds without wrapping;
\* C11 fails for it.
checksum_step_plain(checksum, byte) == checksum + byte

\* The closure of file_checksum.
checksum_step(checksum, byte) == wrapping_add(checksum, byte)

\* The fold of file_checksum over data[lo..hi], from the value acc on: the
\* fold over the second half of the range starts from the value v the fold
\* over the first half ends with.
RECURSIVE fold_range(_, _, _, _)
fold_range(acc, data, lo, hi) ==
  IF lo > hi THEN acc
  ELSE IF lo = hi THEN checksum_step(acc, data[lo])
  ELSE CHOOSE r \in { fold_range(v, data, (lo + hi) \div 2 + 1, hi) : v \in {fold_range(acc, data, lo, (lo + hi) \div 2)} } : TRUE

\* file_checksum
file_checksum(data) == fold_range(0, data, 1, Len(data))

\* The buffer of make_jedec when the file checksum is taken: the header,
\* the lines of the FuseBuilder, the fuse checksum, "*" and ETX.
jedec_buf(cfg, c, fb, fuse_checksum) ==
  jedec_header(cfg, c) \o lines_text(fb.buf, 1, Len(fb.buf)) \o checksum_text(fuse_checksum) \o <<"*", "\n", "ETX">>

\* The last push of make_jedec: the file checksum and a newline.
file_checksum_text(value) == fmt_04x(value) \o <<"\n">>

----------------------------------------------------------------------------
(* parser.rs.  A line of the file is a sequence of characters and a name is
   the sequence of its characters.  A Result is a record of an Error (NoError
   for Ok) and a value. *)

\* EOF_LINE, the line of an error raised after the input has run out.
EOF_LINE == 0

\* Ok(v) and err(line_num, error_code)
POk(v) == [err |-> NoError, val |-> v]

PErr(line_num, error_code) == [err |-> [code |-> error_code, suffix |-> "", line |-> line_num], val |-> 0]

\* at_line(line_num, Err(code))
PErrAt(line_num, res) == [err |-> at_line(line_num, res), val |-> 0]

Failed(r) == r.err # NoError

\* Token::Item((NamedPin, Suffix)), with the number of its line
Token_Item(line_num, name, neg, suffix) ==
  [kind |-> "Item", name |-> name, neg |-> neg, suffix |-> suffix, line |-> line_num]

\* Token::Equals, Token::And, Token::Or, with the number of their line
Token_Op(line_num, kind) ==
  [kind |-> kind, name |-> <<>>, neg |-> FALSE, suffix |-> "None", line |-> line_num]

is_ascii_alphabetic(c) == InTable(UpperCase, c) \/ InTable(LowerCase, c)

is_ascii_alphanumeric(c) == is_ascii_alphabetic(c) \/ InTable(Digits, c)

\* The characters with the Unicode property White_Space: tab, line feed,
\* form feed, carriage return and space as TLA+ writes them, the others by
\* their code point.
WhiteSpace ==
  {"\t", "\n", "U+000B", "\f", "\r", " ", "U+0085", "U+00A0", "U+1680",
   "U+2000", "U+2001", "U+2002", "U+2003", "U+2004", "U+2005", "U+2006", "U+2007", "U+2008", "U+2009", "U+200A",
   "U+2028", "U+2029", "U+202F", "U+205F", "U+3000"}

\* char::is_whitespace
is_whitespace(c) == c \in WhiteSpace

\* The position the loops of tokenise_pin stop at: the first one from i on
\* that holds no alphanumeric character.
skip_alphanumeric(s, i) ==
  CHOOSE j \in i..(Len(s) + 1) :
    /\ \A k \in i..(j - 1) : is_ascii_alphanumeric(s[k])
    /\ j = Len(s) + 1 \/ ~is_ascii_alphanumeric(s[j])

ext_to_suffix(s) ==
  CASE s = <<"T">> -> Ok("T")
    [] s = <<"R">> -> Ok("R")
    [] s = <<"E">> -> Ok("E")
    [] s = <<"C", "L", "K">> -> Ok("CLK")
    [] s = <<"A", "P", "R", "S", "T">> -> Ok("APRST")
    [] s = <<"A", "R", "S", "T">> -> Ok("ARST")
    [] OTHER -> Err("BadSuffix")

\* The end of the name of the pin that starts at position b.
pin_name_end(s, b) ==
  IF b <= Len(s) /\ is_ascii_alphabetic(s[b]) THEN skip_alphanumeric(s, b + 1) ELSE b

\* The end of the extension, if a '.' follows the name that ends at e.
pin_ext_end(s, e) ==
  IF e <= Len(s) /\ s[e] = "." THEN skip_alphanumeric(s, e + 1) ELSE e

\* tokenise_pin on the characters from position i on: the token and the
\* position after it.
tokenise_pin(line_num, s, i) ==
  LET neg == s[i] = "/"
      b == IF s[i] = "/" THEN i + 1 ELSE i
      e == pin_name_end(s, b)
      x == pin_ext_end(s, e)
      suffix == IF x > e THEN ext_to_suffix(SubSeq(s, e + 1, x - 1)) ELSE Ok("None")
  IN IF e = b THEN [err |-> PErr(line_num, "NoPinName").err, token |-> Token_Op(line_num, "None"), next |-> b]
     ELSE IF ~suffix.ok THEN [err |-> at_line(line_num, suffix), token |-> Token_Op(line_num, "None"), next |-> x]
     ELSE [err |-> NoError, token |-> Token_Item(line_num, SubSeq(s, b, e - 1), neg, suffix.val), next |-> x]

\* res.push(token) before the rest of the line is read.
push_front(token, r) ==
  IF Failed(r) THEN r ELSE POk(<<token>> \o r.val)

RECURSIVE tokenise_from(_, _, _)

\* res.push(tokenise_pin(line_num, &mut chars)?), p being the result of
\* tokenise_pin, and the rest of the loop of tokenise.
push_pin(line_num, s, p) ==
  IF p.err # NoError THEN [err |-> p.err, val |-> 0]
  ELSE push_front(p.token, tokenise_from(line_num, s, p.next))

\* The loop of tokenise from position i on.
tokenise_from(line_num, s, i) ==
  IF i > Len(s) THEN POk(<<>>)
  ELSE IF s[i] = "=" THEN push_front(Token_Op(line_num, "Equals"), tokenise_from(line_num, s, i + 1))
  ELSE IF s[i] \in {"+", "#"} THEN push_front(Token_Op(line_num, "Or"), tokenise_from(line_num, s, i + 1))
  ELSE IF s[i] \in {"*", "&"} THEN push_front(Token_Op(line_num, "And"), tokenise_from(line_num, s, i + 1))
  ELSE IF s[i] = "/" \/ is_ascii_alphabetic(s[i])
  THEN push_pin(line_num, s, tokenise_pin(line_num, s, i))
  ELSE IF is_whitespace(s[i]) THEN tokenise_from(line_num, s, i + 1)
  ELSE PErr(line_num, "BadChar")

\* tokenise, of the line [num, text]
tokenise(line) == tokenise_from(line.num, line.text, 1)

\* tokenised_lines, has_continuation
has_continuation(v) == Len(v) > 0 /\ v[Len(v)].kind \in {"And", "Or"}

\* A variant of is_continuation that never looks at the next line, so that
\* only a trailing operator joins lines; C15 fails for it.
is_continuation_never(lines, pos) == FALSE

\* tokenised_lines, is_continuation: the next line is there, tokenises and
\* starts with an operator.
is_continuation(lines, pos) ==
  /\ pos <= Len(lines)
  /\ \E t \in {tokenise(lines[pos])} :
       /\ ~Failed(t)
       /\ Len(t.val) > 0
       /\ t.val[1].kind \in {"And", "Or"}

\* The while loop of ConcatIterator::next: lines are appended as long as
\* the tokens end with an operator or the next line starts with one.  The
\* item and the position of the next unread line.
RECURSIVE concat_more(_, _, _)

\* self.iter.next() in that loop, with next the tokens of the line at pos.
concat_append(lines, line, pos, next) ==
  IF Failed(next) THEN [item |-> next, pos |-> pos + 1]
  ELSE concat_more(lines, line \o next.val, pos + 1)

concat_more(lines, line, pos) ==
  IF has_continuation(line) \/ is_continuation(lines, pos)
  THEN IF pos > Len(lines) THEN [item |-> POk(line), pos |-> pos]
       ELSE concat_append(lines, line, pos, tokenise(lines[pos]))
  ELSE [item |-> POk(line), pos |-> pos]

\* ConcatIterator::next, when a line is left.
concat_next(lines, pos) == concat_append(lines, <<>>, pos, tokenise(lines[pos]))

remove_comment(s) ==
  IF \E i \in 1..Len(s) : s[i] = ";"
  THEN SubSeq(s, 1, (CHOOSE i \in 1..Len(s) : s[i] = ";" /\ \A k \in 1..(i - 1) : s[k] # ";") - 1)
  ELSE s

\* str::trim
trim(s) ==
  IF \A i \in 1..Len(s) : is_whitespace(s[i]) THEN <<>>
  ELSE SubSeq(s, CHOOSE i \in 1..Len(s) : ~is_whitespace(s[i]) /\ \A k \in 1..(i - 1) : is_whitespace(s[k]),
                 CHOOSE j \in 1..Len(s) : ~is_whitespace(s[j]) /\ \A k \in (j + 1)..Len(s) : is_whitespace(s[k]))

DESCRIPTION == <<"D", "E", "S", "C", "R", "I", "P", "T", "I", "O", "N">>

\* The numbers of the lines parse_core reads after the signature: those
\* that hold more than a comment and whitespace, up to a DESCRIPTION line.
kept_lines(data) ==
  { i \in 3..Len(data) :
      /\ trim(remove_comment(data[i])) # <<>>
      /\ \A k \in 3..i : trim(remove_comment(data[k])) # DESCRIPTION }

\* The line iterator of parse_core after the signature, as the sequence of
\* its items (line number, text).
line_iter(data) ==
  [k \in 1..Cardinality(kept_lines(data)) |->
     [num |-> CHOOSE i \in kept_lines(data) : Cardinality({j \in kept_lines(data) : j < i}) = k - 1,
      text |-> trim(remove_comment(data[CHOOSE i \in kept_lines(data) : Cardinality({j \in kept_lines(data) : j < i}) = k - 1]))]]

\* Chip::from_name
from_name(name) ==
  IF \E c \in Chips : chip_name(c) = name
  THEN Ok(CHOOSE c \in Chips : chip_name(c) = name)
  ELSE Err("BadGALType")

\* parse_chip
parse_chip(data) ==
  IF Len(data) < 1 THEN PErr(EOF_LINE, "BadGALType")
  ELSE IF ~from_name(trim(data[1])).ok THEN PErrAt(1, from_name(trim(data[1])))
  ELSE POk(from_name(trim(data[1])).val)

\* parse_signature: the first eight bytes of the second line.
parse_signature(data) ==
  IF Len(data) < 2 THEN PErr(EOF_LINE, "BadEOF")
  ELSE POk(as_bytes(SubSeq(data[2], 1, IF Len(data[2]) < 8 THEN Len(data[2]) ELSE 8)))

\* HashMap<String, Pin>: a set of entries (name, pin)
contains_key(pin_map, name) == \E e \in pin_map : e.name = name

map_get(pin_map, name) == (CHOOSE e \in pin_map : e.name = name).pin

\* The names str::parse turns into a SpecialProductTerm
NC_NAME == <<"N", "C">>

VCC_NAME == <<"V", "C", "C">>

GND_NAME == <<"G", "N", "D">>

AR_NAME == <<"A", "R">>

SP_NAME == <<"S", "P">>

\* The loop of extend_pin_map from the k-th pin of the row on; pin_num is
\* first_pin + k - 1.
RECURSIVE extend_from(_, _, _, _, _)
extend_from(pin_map, c, first_pin, pins, k) ==
  IF k > Len(pins) THEN [pin_map |-> pin_map, res |-> Ok(0)]
  ELSE IF first_pin + k - 1 = num_pins(c) /\ ~(pins[k].name = VCC_NAME /\ ~pins[k].neg)
  THEN [pin_map |-> pin_map, res |-> ErrS("InvalidPowerPinName", "VCC")]
  ELSE IF first_pin + k - 1 = num_pins(c) \div 2 /\ ~(pins[k].name = GND_NAME /\ ~pins[k].neg)
  THEN [pin_map |-> pin_map, res |-> ErrS("InvalidPowerPinName", "GND")]
  ELSE IF pins[k].name = VCC_NAME /\ first_pin + k - 1 # num_pins(c)
  THEN [pin_map |-> pin_map, res |-> ErrS("InvalidPowerPinLocation", "VCC")]
  ELSE IF pins[k].name = GND_NAME /\ first_pin + k - 1 # num_pins(c) \div 2
  THEN [pin_map |-> pin_map, res |-> ErrS("InvalidPowerPinLocation", "GND")]
  ELSE IF pins[k].name = NC_NAME THEN extend_from(pin_map, c, first_pin, pins, k + 1)
  ELSE IF contains_key(pin_map, pins[k].name)
  THEN [pin_map |-> pin_map, res |-> Err("RepeatedPinName")]
  ELSE IF c = "GAL22V10" /\ pins[k].name \in {AR_NAME, SP_NAME}
  THEN [pin_map |-> pin_map, res |-> ErrS("ReservedPinName", IF pins[k].name = AR_NAME THEN "AR" ELSE "SP")]
  ELSE extend_from(pin_map \cup {[name |-> pins[k].name, pin |-> Pin(first_pin + k - 1, pins[k].neg)]},
                   c, first_pin, pins, k + 1)

\* A variant of extend_pin_map that starts each row with an empty map, so
\* that a name of the first row may come again in the second; C14 fails
\* for it.
extend_pin_map_per_row(pin_map, c, row_num, pins) ==
  extend_from({}, c, 1 + (row_num * num_pins(c)) \div 2, pins, 1)

\* extend_pin_map: the new pin map and the Result.
extend_pin_map(pin_map, c, row_num, pins) ==
  extend_from(pin_map, c, 1 + (row_num * num_pins(c)) \div 2, pins, 1)

\* The tokens of a pin row that are no plain names.
bad_pin_tokens(tokens) ==
  { k \in 1..Len(tokens) : tokens[k].kind # "Item" \/ tokens[k].suffix # "None" }

\* The end of parse_pins: the Result of extend_pin_map is m.
pins_extended(line_num, pins, m) ==
  IF ~m.res.ok THEN PErrAt(line_num, m.res)
  ELSE POk([pins |-> pins, pin_map |-> m.pin_map])

\* parse_pins after the line has been tokenised.
pins_of_tokens(pin_map, c, row_num, line_num, tokens) ==
  IF bad_pin_tokens(tokens) # {}
  THEN PErr(tokens[CHOOSE k \in bad_pin_tokens(tokens) : \A j \in bad_pin_tokens(tokens) : k <= j].line, "BadPin")
  ELSE IF Len(tokens) # num_pins(c) \div 2 THEN PErr(line_num, "BadPinCount")
  ELSE pins_extended(line_num, [k \in 1..Len(tokens) |-> [name |-> tokens[k].name, neg |-> tokens[k].neg]],
                     extend_pin_map(pin_map, c, row_num, [k \in 1..Len(tokens) |-> [name |-> tokens[k].name, neg |-> tokens[k].neg]]))

\* tokenise(line)? in parse_pins, t being the Result of tokenise.
pins_tokenised(pin_map, c, row_num, line_num, t) ==
  IF Failed(t) THEN t ELSE pins_of_tokens(pin_map, c, row_num, line_num, t.val)

\* parse_pins on the line at position pos: the pins of the row and the new
\* pin map, or the error.
parse_pins(pin_map, c, row_num, lines, pos) ==
  IF pos > Len(lines) THEN PErr(EOF_LINE, "BadEOF")
  ELSE pins_tokenised(pin_map, c, row_num, lines[pos].num, tokenise(lines[pos]))

\* lookup_pin
lookup_pin(c, pin_map, pin_name) ==
  IF contains_key(pin_map, pin_name.name)
  THEN Ok(Pin(map_get(pin_map, pin_name.name).pin, map_get(pin_map, pin_name.name).neg # pin_name.neg))
  ELSE IF pin_name.name = NC_NAME THEN Err("BadNC")
  ELSE IF pin_name.name = AR_NAME /\ c = "GAL22V10" THEN ErrS("BadSpecial", "AR")
  ELSE IF pin_name.name = SP_NAME /\ c = "GAL22V10" THEN ErrS("BadSpecial", "SP")
  ELSE Err("UnknownPin")

\* parse_pin, the iterator being at the k-th token.
parse_pin(c, pin_map, tokens, k) ==
  IF k > Len(tokens) THEN PErr(EOF_LINE, "BadEOL")
  ELSE IF tokens[k].kind = "Item"
  THEN (IF tokens[k].suffix # "None" THEN PErr(tokens[k].line, "BadPin")
        ELSE IF ~lookup_pin(c, pin_map, tokens[k]).ok THEN PErrAt(tokens[k].line, lookup_pin(c, pin_map, tokens[k]))
        ELSE POk(lookup_pin(c, pin_map, tokens[k]).val))
  ELSE PErr(tokens[k].line, "BadToken")

\* parse_lhs, the iterator being at the first token.
parse_lhs(c, pin_map, tokens) ==
  IF Len(tokens) > 0 /\ tokens[1].kind = "Item"
  THEN (IF c = "GAL22V10" /\ tokens[1].name \in {AR_NAME, SP_NAME}
        THEN (IF tokens[1].suffix # "None" THEN PErr(tokens[1].line, "SpecialSuffix")
              ELSE IF tokens[1].neg THEN PErr(tokens[1].line, "InvertedSpecial")
              ELSE IF tokens[1].name = AR_NAME THEN POk(LAr)
              ELSE POk(LSp))
        ELSE IF ~lookup_pin(c, pin_map, tokens[1]).ok THEN PErrAt(tokens[1].line, lookup_pin(c, pin_map, tokens[1]))
        ELSE POk(LPin(lookup_pin(c, pin_map, tokens[1]).val.pin, lookup_pin(c, pin_map, tokens[1]).val.neg, tokens[1].suffix)))
  ELSE PErr(EOF_LINE, "BadToken")

\* The loop of parse_equation, the iterator being at the k-th token.
RECURSIVE parse_rhs(_, _, _, _, _, _)
parse_rhs(c, pin_map, tokens, k, rhs, is_or) ==
  IF k > Len(tokens) THEN POk([rhs |-> rhs, is_or |-> is_or])
  ELSE IF tokens[k].kind \in {"And", "Or"}
  THEN (IF Failed(parse_pin(c, pin_map, tokens, k + 1)) THEN parse_pin(c, pin_map, tokens, k + 1)
        ELSE parse_rhs(c, pin_map, tokens, k + 2,
                       Append(rhs, parse_pin(c, pin_map, tokens, k + 1).val), Append(is_or, tokens[k].kind = "Or")))
  ELSE PErr(tokens[k].line, "BadToken")

\* The end of parse_equation, r being what the loop has given.
equation_of_rhs(line_num, lhs, r) ==
  IF Failed(r) THEN r ELSE POk(Equation(line_num, lhs, r.val.rhs, r.val.is_or))

\* parse_equation; line_num is the line of the second token.
parse_equation(c, pin_map, tokens) ==
  IF Failed(parse_lhs(c, pin_map, tokens)) THEN parse_lhs(c, pin_map, tokens)
  ELSE IF Len(tokens) < 2 THEN PErr(EOF_LINE, "BadEOF")
  ELSE IF tokens[2].kind # "Equals" THEN PErr(tokens[2].line, "NoEquals")
  ELSE IF Failed(parse_pin(c, pin_map, tokens, 3)) THEN parse_pin(c, pin_map, tokens, 3)
  ELSE equation_of_rhs(tokens[2].line, parse_lhs(c, pin_map, tokens).val,
                       parse_rhs(c, pin_map, tokens, 4, <<parse_pin(c, pin_map, tokens, 3).val>>, <<FALSE>>))

\* One round of the loop of parse_core over tokenised_lines: the equation
\* of the next logical line, or the error, and the position after it.
equation_of_item(c, pin_map, n) ==
  IF Failed(n.item) THEN [res |-> n.item, pos |-> n.pos]
  ELSE [res |-> parse_equation(c, pin_map, n.item.val), pos |-> n.pos]

next_equation(c, pin_map, lines, pos) == equation_of_item(c, pin_map, concat_next(lines, pos))

\* The closure of parse: an error at EOF_LINE is given the number of lines
\* of the file.
map_err(data, e) ==
  IF e.line = EOF_LINE THEN [e EXCEPT !.line = Len(data)] ELSE e

----------------------------------------------------------------------------
(* The pipeline: a file's equations are added to the blueprint one by
   one, then the fuse builder registers the output of each equation,
   analyses the mode and writes the terms. *)

\* The number of equations of a file.
MaxEqns == 2

\* The pin of OLMC k.
OP(c, k) == get_chip_data(c).min_olmc_pin + k

VCC(c) == num_pins(c)

GND(c) == num_pins(c) \div 2

E1(lhs, p) == [lhs |-> lhs, rhs |-> <<p>>, is_or |-> <<FALSE>>]

EAnd(lhs, p, q) == [lhs |-> lhs, rhs |-> <<p, q>>, is_or |-> <<FALSE, FALSE>>]

EOr(lhs, p, q) == [lhs |-> lhs, rhs |-> <<p, q>>, is_or |-> <<FALSE, TRUE>>]

\* The equations a file is made of: base, enable and control equations
\* for the first OLMC, outputs fed by OLMC pins and by power pins.
CommonEqns(c) ==
  { E1(LPin(OP(c, 0), FALSE, "None"), Pin(2, FALSE)),
    EOr(LPin(OP(c, 0), TRUE, "T"), Pin(2, FALSE), Pin(3, TRUE)),
    E1(LPin(OP(c, 0), FALSE, "R"), Pin(2, FALSE)),
    E1(LPin(OP(c, 0), FALSE, "E"), Pin(2, FALSE)),
    E1(LPin(OP(c, 0), FALSE, "CLK"), Pin(2, FALSE)),
    EAnd(LPin(OP(c, 3), FALSE, "None"), Pin(OP(c, 0), FALSE), Pin(3, TRUE)),
    E1(LPin(OP(c, 0), FALSE, "None"), Pin(VCC(c), TRUE)),
    E1(LPin(OP(c, 3), TRUE, "None"), Pin(GND(c), TRUE)),
    EAnd(LPin(OP(c, 3), FALSE, "None"), Pin(2, FALSE), Pin(VCC(c), TRUE)),
    EOr(LPin(OP(c, 3), FALSE, "T"), Pin(GND(c), TRUE), Pin(3, FALSE)) }

ChipEqns(c) ==
  CASE c \in {"GAL16V8", "GAL20V8"} ->
         { E1(LPin(OP(c, 3), FALSE, "T"), Pin(OP(c, 7), FALSE)),
           E1(LPin(OP(c, 7), FALSE, "None"), Pin(OP(c, 3), FALSE)),
           E1(LPin(OP(c, 7), FALSE, "None"), Pin(OP(c, 2), TRUE)),
           E1(LPin(OP(c, 5), TRUE, "None"), Pin(OP(c, 4), FALSE)),
           EAnd(LPin(OP(c, 5), FALSE, "R"), Pin(1, FALSE), Pin(GND(c), TRUE)) }
    [] c = "GAL22V10" ->
         { E1(LAr, Pin(2, FALSE)),
           EOr(LSp, Pin(2, FALSE), Pin(3, FALSE)),
           EAnd(LSp, Pin(3, TRUE), Pin(OP(c, 0), FALSE)),
           E1(LPin(OP(c, 3), FALSE, "R"), Pin(OP(c, 0), TRUE)) }
    [] c = "GAL20RA10" ->
         { E1(LPin(OP(c, 0), FALSE, "ARST"), Pin(2, FALSE)),
           E1(LPin(OP(c, 0), FALSE, "APRST"), Pin(3, FALSE)),
           E1(LPin(OP(c, 3), FALSE, "E"), Pin(2, FALSE)),
           [lhs |-> LPin(OP(c, 0), FALSE, "E"),
            rhs |-> <<Pin(2, FALSE), Pin(3, FALSE), Pin(GND(c), TRUE)>>,
            is_or |-> <<FALSE, TRUE, FALSE>>] }

EqnMenu(c) == CommonEqns(c) \cup ChipEqns(c)

NoLast == [op |-> "none"]

\* The OLMCs of the fuse builder before do_stuff has created them.
NoBuilder == [olmcs |-> <<>>, next |-> 0]

\* The writer's Config of a run that writes no file.
NoConfig == [jedec_sec_bit |-> FALSE]

\* The parser's state before parse is called.
NoParser == [sig |-> <<>>, lines |-> <<>>, pos |-> 0, row |-> 0, pin_map |-> {}, pins |-> <<>>, eqns |-> <<>>, pin_names |-> <<>>]

\* The signatures of the designs: none, and one of more than eight bytes.
SigMenu == {<<>>, as_bytes(<<"S", "i", "g", "n", "a", "t", "u", "r", "e", "1">>)}

\* do_stuff: the signature is written into the fuse state, eight bits for
\* each of its first eight bytes, the most significant bit first.
set_sig(g, sig) ==
  [g EXCEPT !.sig = [k \in 0..63 |-> IF k \div 8 < Len(sig) THEN (sig[(k \div 8) + 1] \div (2 ^ (7 - (k % 8)))) % 2 = 1 ELSE FALSE]]

Init ==
  /\ chip \in Chips
  /\ pc = "blueprint"
  /\ olmcs = Blueprint_new(chip)
  /\ ar = None
  /\ sp = None
  /\ neqn = 0
  /\ err = NoError
  /\ gal = NoGAL
  /\ last = NoLast
  /\ fuse_builder = FuseBuilder_new
  /\ wpos = 0
  /\ config = NoConfig
  /\ jedec = <<>>
  /\ file = <<>>
  /\ \E sig \in SigMenu : parser = [NoParser EXCEPT !.sig = sig]
  /\ builder = NoBuilder

\* One round of the loop of Blueprint::from: the next equation of the file,
\* on the line after the previous one (the first equation is on line 5 at
\* the earliest), is added; an error ends the loop.  parser.eqns holds the
\* slice of the equations read so far.
AddEquation ==
  /\ pc = "blueprint"
  /\ neqn < MaxEqns
  /\ \E e \in EqnMenu(chip) :
       \E r \in {add_equation(chip, olmcs, ar, sp, Equation(neqn + 5, e.lhs, e.rhs, e.is_or))} :
          /\ olmcs' = r.olmcs
          /\ ar' = r.ar
          /\ sp' = r.sp
          /\ err' = IF r.res.ok THEN NoError ELSE at_line(neqn + 5, r.res)
          /\ pc' = IF r.res.ok THEN "blueprint" ELSE "error"
          /\ last' = [op |-> "add_equation", eqn |-> Equation(neqn + 5, e.lhs, e.rhs, e.is_or), res |-> r.res]
          /\ parser' = [parser EXCEPT !.eqns = Append(@, Equation(neqn + 5, e.lhs, e.rhs, e.is_or))]
  /\ neqn' = neqn + 1
  /\ UNCHANGED <<config, jedec, file, chip, gal, fuse_builder, wpos, builder>>

\* do_stuff up to the call of do_it_all: the fuse builder creates the GAL,
\* which is given the signature, and its OLMCs.  It looks at no equation
\* and returns no error.
BuildStart ==
  /\ pc = "blueprint"
  /\ gal' = set_sig(GAL_new(chip), parser.sig)
  /\ builder' = [olmcs |-> BuilderOLMCs, next |-> 1]
  /\ err' = NoError
  /\ pc' = IF Len(parser.eqns) = 0 THEN "analyse" ELSE "first_pass"
  /\ last' = [op |-> "build"]
  /\ UNCHANGED <<config, jedec, file, parser, chip, olmcs, ar, sp, neqn, fuse_builder, wpos>>

\* One round of the first loop of do_it_all: the next equation of the
\* slice is registered; the first error ends the build, and the mode is
\* analysed after the last equation.
RegisterOutput ==
  /\ pc = "first_pass"
  /\ builder.next <= Len(parser.eqns)
  /\ \E r \in {first_pass_eqn(chip, builder.olmcs, parser.eqns[builder.next])} :
       \E e \in i32_outcomes(r.err) :
         /\ builder' = [olmcs |-> r.olmcs, next |-> builder.next + 1]
         /\ err' = e
         /\ pc' = IF e # NoError THEN "error" ELSE IF builder.next = Len(parser.eqns) THEN "analyse" ELSE "first_pass"
  /\ last' = [op |-> "register_output", eqn |-> parser.eqns[builder.next]]
  /\ UNCHANGED <<config, jedec, file, parser, chip, olmcs, ar, sp, neqn, gal, fuse_builder, wpos>>

AnalyseMode ==
  /\ pc = "analyse"
  /\ \E r \in {analyse_mode(gal, olmcs)} :
       /\ gal' = r.gal
       /\ olmcs' = r.olmcs
  /\ pc' = "terms"
  /\ last' = [op |-> "analyse_mode"]
  /\ UNCHANGED <<config, jedec, file, parser, chip, ar, sp, neqn, err, fuse_builder, wpos, builder>>

WriteTerms ==
  /\ pc = "terms"
  /\ \E r \in {write_terms(gal, olmcs, builder.olmcs)} :
       \E e \in i32_outcomes(r.err) :
         /\ gal' = r.gal
         /\ err' = e
         /\ pc' = IF e = NoError THEN "done" ELSE "error"
  /\ last' = [op |-> "write_terms"]
  /\ UNCHANGED <<config, jedec, file, parser, chip, olmcs, ar, sp, neqn, fuse_builder, wpos, builder>>

Next == AddEquation \/ BuildStart \/ RegisterOutput \/ AnalyseMode \/ WriteTerms

Spec == Init /\ [][Next]_vars

----------------------------------------------------------------------------
(* Properties of the pipeline *)

V8 == {"GAL16V8", "GAL20V8"}

\* The loop of the second pass over the OLMCs has run to its end: the
\* build is done or, on the GAL22V10, has panicked in the part that follows
\* the loop.
OlmcsWritten ==
  \/ pc = "done"
  \/ pc = "error" /\ last.op = "write_terms" /\ chip = "GAL22V10" /\ err = Panic

\* The pin type the fuse builder gives an OLMC of the blueprint.
PinType(olmc) ==
  CASE HasMode(olmc, "Tristate") -> "TRIOUT"
    [] HasMode(olmc, "Registered") -> "REGOUT"
    [] HasMode(olmc, "Combinatorial") -> "COM_TRI_OUT"
    [] OTHER -> IF olmc.feedback THEN "INPUT" ELSE "NOTUSED"

\* Once the first pass has accepted every equation, the OLMCs of the fuse
\* builder are those of the blueprint: the same pin type, polarity,
\* feedback and control terms, and no equation is left out.
FirstPassAgrees ==
  pc = "analyse" =>
    /\ \A n \in DOMAIN olmcs :
         /\ builder.olmcs[n].pin_type = PinType(olmcs[n])
         /\ IsSome(olmcs[n].output) => builder.olmcs[n].active = olmcs[n].active
         /\ (builder.olmcs[n].feedback = 1) <=> olmcs[n].feedback
         /\ (builder.olmcs[n].tri_con = 1) <=> IsSome(olmcs[n].tri_con)
         /\ (builder.olmcs[n].clock = 1) <=> IsSome(olmcs[n].clock)
         /\ (builder.olmcs[n].arst = 1) <=> IsSome(olmcs[n].arst)
         /\ (builder.olmcs[n].aprst = 1) <=> IsSome(olmcs[n].aprst)
    /\ ~IsSome(ar) /\ ~IsSome(sp)
    /\ \A k \in 1..Len(parser.eqns) :
         \E n \in DOMAIN olmcs : \E i \in 1..Len(builder.olmcs[n].eqns) : builder.olmcs[n].eqns[i] = parser.eqns[k]

\* The step just taken added the equation last'.eqn to the blueprint.
AddedEquation == pc = "blueprint" /\ last'.op = "add_equation"

\* The equation has `/VCC` or `/GND` as the only pin of its right-hand side.
LonePowerNeg(c, eqn) ==
  Len(eqn.rhs) = 1 /\ eqn.rhs[1].neg /\ eqn.rhs[1].pin \in {VCC(c), GND(c)}

\* The mode the analysis is to select for the OLMCs os.
C1_Mode(os) ==
  IF \E n \in 0..7 : IsSome(os[n].output) /\ os[n].output.mode = "Registered" THEN "Registered"
  ELSE IF \E n \in 0..7 : IsSome(os[n].output) /\ os[n].output.mode = "Tristate" THEN "Complex"
  ELSE IF \/ \E n \in {3, 4} : os[n].feedback /\ ~IsSome(os[n].output)
          \/ \E n \in 0..7 : os[n].feedback /\ IsSome(os[n].output)
       THEN "Complex"
  ELSE "Simple"

C1_Flags(m) ==
  CASE m = "Simple" -> <<TRUE, FALSE>>
    [] m = "Complex" -> <<TRUE, TRUE>>
    [] m = "Registered" -> <<FALSE, TRUE>>

\* C1: on the GAL16V8 and GAL20V8 the mode analysis selects Registered mode
\* if any OLMC has a registered output, else Complex mode if any has a
\* tristate output, else Complex mode if an OLMC with feedback and no output
\* has index 3 or 4 or an OLMC with feedback has an output, else Simple
\* mode, and stores it as (syn, ac0) = (true, false) for Simple, (true, true)
\* for Complex and (false, true) for Registered.
C1 ==
  [][(pc = "analyse" /\ chip \in V8) =>
       (pc' = "terms" /\ <<gal'.syn, gal'.ac0>> = C1_Flags(C1_Mode(olmcs)))]_vars

\* Complex mode was selected only because OLMC 3, which has no output, is
\* fed back.
C1_Witness ==
  /\ pc = "terms" /\ chip = "GAL16V8" /\ neqn = 1
  /\ gal.syn /\ gal.ac0
  /\ olmcs[3].feedback /\ ~IsSome(olmcs[3].output)

\* The equation just added is a base equation (no suffix, .T or .R) for
\* OLMC n, whose output was set.
C2_Repeated(n) ==
  /\ last'.eqn.lhs.kind = "Pin"
  /\ last'.eqn.lhs.suffix \in {"None", "T", "R"}
  /\ last'.eqn.lhs.pin.pin = OP(chip, n)
  /\ IsSome(olmcs[n].output)

\* Every output that was set is left as it was, mode, term and polarity.
C2_Kept ==
  \A n \in DOMAIN olmcs :
    IsSome(olmcs[n].output) =>
      olmcs'[n].output = olmcs[n].output /\ olmcs'[n].active = olmcs[n].active

\* C2 as the specification states it: a base equation for an OLMC whose
\* output is set fails with RepeatedOutput and leaves the output as first
\* defined.
C2_Original ==
  [][AddedEquation =>
       /\ C2_Kept
       /\ \A n \in DOMAIN olmcs :
            C2_Repeated(n) => (pc' = "error" /\ err'.code = "RepeatedOutput")]_vars

\* C2: across the add_equation calls on a blueprint the output of an OLMC
\* is assigned at most once: once set, the output mode, the output term and
\* the active polarity stay as first defined, and a base equation (no
\* suffix, .T or .R) for an OLMC whose output is set fails at its line,
\* with InvertedPower if its right-hand side is a lone /VCC or /GND (the
\* term is made before the OLMC is looked at) and with RepeatedOutput in
\* every other case.
C2 ==
  [][AddedEquation =>
       /\ C2_Kept
       /\ \A n \in DOMAIN olmcs :
            C2_Repeated(n) =>
              /\ pc' = "error"
              /\ err'.line = last'.eqn.line_num
              /\ err'.code = (IF LonePowerNeg(chip, last'.eqn) THEN "InvertedPower" ELSE "RepeatedOutput")]_vars

\* A second base equation for an OLMC, of another mode and polarity than
\* the first, has been rejected.
C2_Witness ==
  /\ pc = "error" /\ err.code = "RepeatedOutput"
  /\ last.op = "add_equation" /\ last.eqn.lhs.suffix = "T" /\ last.eqn.lhs.pin.neg
  /\ IsSome(olmcs[0].output) /\ olmcs[0].output.mode = "Registered" /\ olmcs[0].active = "High"

\* The control term of an OLMC for a suffix.
ControlTerm(olmc, suffix) ==
  CASE suffix = "E" -> olmc.tri_con
    [] suffix = "CLK" -> olmc.clock
    [] suffix = "ARST" -> olmc.arst
    [] suffix = "APRST" -> olmc.aprst

ControlSuffixes == {"E", "CLK", "ARST", "APRST"}

\* The OLMC has a control term and no output.
ControlOnly(olmc) ==
  ~IsSome(olmc.output) /\ \E x \in ControlSuffixes : IsSome(ControlTerm(olmc, x))

\* The step just taken registered the output of the equation last'.eqn
\* with the OLMCs of the fuse builder.
Registered == pc = "first_pass" /\ last'.op = "register_output"

\* C3: the blueprint builder accepts a control equation (.E, .CLK, .ARST,
\* .APRST) and stores its term whether or not the base output of the OLMC
\* has been defined, and accepts the base equation after it, so equations
\* may come in any order: the fuse builder reports UndefinedOutput only
\* for an OLMC the blueprint has left with a control term and no output,
\* with the suffix and line of such a term, and the control equation of an
\* OLMC left so is reported as UndefinedOutput when the fuse builder meets
\* it.
C3 ==
  /\ [][AddedEquation =>
          \A n \in DOMAIN olmcs :
            (last'.eqn.lhs.kind = "Pin" /\ last'.eqn.lhs.pin.pin = OP(chip, n)
               /\ ~LonePowerNeg(chip, last'.eqn)) =>
              /\ ( /\ last'.eqn.lhs.suffix \in ControlSuffixes
                   /\ ~last'.eqn.lhs.pin.neg
                   /\ ~IsSome(ControlTerm(olmcs[n], last'.eqn.lhs.suffix)) ) =>
                     /\ pc' = "blueprint" /\ err' = NoError
                     /\ IsSome(ControlTerm(olmcs'[n], last'.eqn.lhs.suffix))
                     /\ ControlTerm(olmcs'[n], last'.eqn.lhs.suffix).line_num = last'.eqn.line_num
                     /\ olmcs'[n].output = olmcs[n].output
              /\ ( /\ last'.eqn.lhs.suffix \in {"None", "T", "R"}
                   /\ ~IsSome(olmcs[n].output) ) =>
                     /\ pc' = "blueprint" /\ err' = NoError
                     /\ IsSome(olmcs'[n].output)
                     /\ \A x \in ControlSuffixes : ControlTerm(olmcs'[n], x) = ControlTerm(olmcs[n], x)]_vars
  /\ [][(pc' = "error" /\ err'.code = "UndefinedOutput") =>
          \E n \in DOMAIN olmcs :
            /\ ControlOnly(olmcs[n])
            /\ IsSome(ControlTerm(olmcs[n], err'.suffix))
            /\ ControlTerm(olmcs[n], err'.suffix).line_num = err'.line]_vars
  /\ [][Registered =>
          \A n \in DOMAIN olmcs :
            ( /\ last'.eqn.lhs.pin.pin = OP(chip, n)
              /\ last'.eqn.lhs.suffix \in ControlSuffixes
              /\ ControlOnly(olmcs[n]) ) =>
              /\ pc' = "error"
              /\ err'.code = "UndefinedOutput"
              /\ err'.suffix = last'.eqn.lhs.suffix
              /\ err'.line = last'.eqn.line_num]_vars

\* A .CLK equation came before the .R equation of the same OLMC of a
\* GAL20RA10, the blueprint builder accepted both, and the fuse builder has
\* refused the .CLK equation as UndefinedOutput although the OLMC has its
\* output.
C3_Witness ==
  /\ pc = "error" /\ chip = "GAL20RA10" /\ last.op = "register_output"
  /\ err.code = "UndefinedOutput" /\ err.suffix = "CLK"
  /\ IsSome(olmcs[0].clock) /\ IsSome(olmcs[0].output)
  /\ olmcs[0].clock.line_num < olmcs[0].output.term.line_num
  /\ err.line = olmcs[0].clock.line_num

\* The error register_output_enable is to return for an OLMC of the fuse
\* builder ("None": the enable term is legal).
C4_Code(c, olmc) ==
  IF olmc.pin_type \in {"NOTUSED", "INPUT"} THEN "UndefinedOutput"
  ELSE IF olmc.pin_type = "REGOUT" /\ c \in V8 THEN "TristateReg"
  ELSE IF olmc.pin_type = "COM_TRI_OUT" THEN "UnmatchedTristate"
  ELSE "None"

\* C4: when the fuse builder registers a .E equation, the OLMC carries the
\* enable term and the build fails at the line of the equation with
\* UndefinedOutput{E} if the OLMC has no output, with TristateReg if its
\* output is registered and the chip is a GAL16V8 or GAL20V8, and with
\* UnmatchedTristate if its output is combinatorial; the build goes on if
\* the output is tristate, or registered on the GAL22V10 or GAL20RA10, and
\* so every enable term of a blueprint whose mode is analysed belongs to
\* such an output.
C4 ==
  /\ [][(Registered /\ last'.eqn.lhs.suffix = "E") =>
          \A n \in DOMAIN olmcs :
            last'.eqn.lhs.pin.pin = OP(chip, n) =>
              /\ builder'.olmcs[n].tri_con = 1
              /\ IF C4_Code(chip, builder.olmcs[n]) = "None"
                 THEN pc' # "error" /\ err' = NoError
                 ELSE /\ pc' = "error"
                      /\ err'.code = C4_Code(chip, builder.olmcs[n])
                      /\ err'.suffix = (IF C4_Code(chip, builder.olmcs[n]) = "UndefinedOutput" THEN "E" ELSE "")
                      /\ err'.line = last'.eqn.line_num]_vars
  /\ [](pc = "analyse" =>
          \A n \in DOMAIN olmcs :
            IsSome(olmcs[n].tri_con) =>
              \/ HasMode(olmcs[n], "Tristate")
              \/ HasMode(olmcs[n], "Registered") /\ chip \in {"GAL22V10", "GAL20RA10"})

\* The enable equation of a registered output of a GAL20V8 has been
\* refused.
C4_Witness ==
  /\ pc = "error" /\ chip = "GAL20V8" /\ last.op = "register_output"
  /\ last.eqn.lhs.suffix = "E"
  /\ err.code = "TristateReg" /\ err.line = last.eqn.line_num
  /\ builder.olmcs[0].pin_type = "REGOUT" /\ builder.olmcs[0].tri_con = 1
  /\ HasMode(olmcs[0], "Registered") /\ IsSome(olmcs[0].tri_con)

\* The terms of the blueprint and the bounds the fuse builder writes each
\* of them into.
WrittenTerms ==
  {[term |-> olmcs[n].output.term, bounds |-> get_bounds(gal, n, olmcs, "None").val] :
     n \in {m \in DOMAIN olmcs : IsSome(olmcs[m].output)}}
  \cup {[term |-> ControlTerm(olmcs[n[1]], n[2]), bounds |-> get_bounds(gal, n[1], olmcs, n[2]).val] :
     n \in {m \in (DOMAIN olmcs) \X ControlSuffixes : IsSome(olmcs[m[1]].output) /\ IsSome(ControlTerm(olmcs[m[1]], m[2]))}}

\* The polarity of a reference to the pin is to be flipped.
C7_Flip(pin_num) ==
  /\ chip = "GAL22V10"
  /\ pin_num \in 14..23
  /\ ~gal.ac1[num_olmcs(chip) - 1 - (pin_num - 14)]

\* The fuse of row `row` at offset `off` from the column of the pin.
C7_Fuse(row, pin_num, off) ==
  Fuse(gal, row * num_cols(chip) + pin_to_column(gal, pin_num).val + off)

\* C7: once the terms of the OLMCs are written, for every pin of every
\* product of every term written, the fuse cleared is the one at
\* column + (1 - neg_offset) if the chip is a GAL22V10 and the pin is an
\* OLMC pin (14..23) whose ac1/S1 bit at index num_olmcs-1-olmc is false,
\* and the one at column + neg_offset in every other case (the other fuse
\* of the pair stays set); needs_flip, which add_term asks, flips for
\* exactly those pins; and once the GAL22V10's mode has been analysed, the
\* bit of an OLMC that some equation references is false exactly when the
\* OLMC has a registered output.
C7 ==
  /\ (pc \in {"terms", "done"} \/ OlmcsWritten) =>
       \A p \in 1..num_pins(chip) : needs_flip(gal, p) <=> C7_Flip(p)
  /\ OlmcsWritten =>
       \A w \in WrittenTerms : \A k \in 1..Len(w.term.pins) : \A j \in 1..Len(w.term.pins[k]) :
         LET p == w.term.pins[k][j]
             row == w.bounds.start_row + w.bounds.row_offset + k - 1
             neg_offset == IF p.neg THEN 1 ELSE 0
             used == IF C7_Flip(p.pin) THEN 1 - neg_offset ELSE neg_offset
         IN /\ ~C7_Fuse(row, p.pin, used)
            /\ \/ C7_Fuse(row, p.pin, 1 - used)
               \/ \E i \in 1..Len(w.term.pins[k]) :
                    w.term.pins[k][i].pin = p.pin /\ w.term.pins[k][i].neg # p.neg
  /\ (chip = "GAL22V10" /\ pc \in {"terms", "done"}) =>
       \A n \in DOMAIN olmcs :
         olmcs[n].feedback =>
           (C7_Flip(OP(chip, n)) <=> (IsSome(olmcs[n].output) /\ olmcs[n].output.mode = "Registered"))

\* The terms of a GAL22V10 whose OLMC 3 takes the registered output of
\* OLMC 0 as an input have been written.
C7_Witness ==
  /\ OlmcsWritten /\ chip = "GAL22V10"
  /\ IsSome(olmcs[0].output) /\ olmcs[0].output.mode = "Registered" /\ olmcs[0].feedback
  /\ IsSome(olmcs[3].output)
  /\ \E k \in 1..Len(olmcs[3].output.term.pins) : \E j \in 1..Len(olmcs[3].output.term.pins[k]) :
       olmcs[3].output.term.pins[k][j].pin = OP(chip, 0)

\* A product of the term holds a power pin.
HasPower(c, term) ==
  \E k \in 1..Len(term.pins) : \E j \in 1..Len(term.pins[k]) : term.pins[k][j].pin \in {VCC(c), GND(c)}

\* The terms the blueprint holds.
StoredTerms ==
  {olmcs[n].output.term : n \in {m \in DOMAIN olmcs : IsSome(olmcs[m].output)}}
  \cup {ControlTerm(olmcs[n[1]], n[2]) :
          n \in {m \in (DOMAIN olmcs) \X ControlSuffixes : IsSome(ControlTerm(olmcs[m[1]], m[2]))}}
  \cup {t \in {ar, sp} : IsSome(t)}

\* The right-hand side of the equation holds `/VCC` or `/GND`.
NegPower(c, eqn) ==
  \E k \in 1..Len(eqn.rhs) : eqn.rhs[k].neg /\ eqn.rhs[k].pin \in {VCC(c), GND(c)}

\* C8 as the specification states it: an equation with `/VCC` or `/GND` on
\* its right-hand side, alone or among several pins, fails with
\* InvertedPower.
C8_Original ==
  [][(AddedEquation /\ NegPower(chip, last'.eqn)) =>
       (pc' = "error" /\ err'.code = "InvertedPower")]_vars

\* The equations of the OLMCs of the fuse builder that have `/VCC` or
\* `/GND` among several pins.
C8_Among(c, b) ==
  { e \in UNION { { b[n].eqns[k] : k \in 1..Len(b[n].eqns) } : n \in DOMAIN b } :
      NegPower(c, e) /\ Len(e.rhs) > 1 }

\* C8: an equation whose right-hand side is `/VCC` or `/GND` alone fails in
\* the blueprint builder with InvertedPower, at its line.  With `/VCC` or
\* `/GND` among several pins no stage reports InvertedPower: the blueprint
\* builder makes the term, power pin included, and stores it as the output
\* of an OLMC that has none; the second pass of the fuse builder does not
\* get through such an equation, and add_equation refuses it at its line,
\* with BadPower, or with the NotAnInput or TooManyProducts of an input
\* that stands before the power pin.
C8 ==
  /\ [][/\ (AddedEquation /\ LonePowerNeg(chip, last'.eqn)) =>
            /\ pc' = "error"
            /\ err'.code = "InvertedPower"
            /\ err'.line = last'.eqn.line_num
        /\ (AddedEquation /\ NegPower(chip, last'.eqn) /\ Len(last'.eqn.rhs) > 1) =>
            /\ err'.code # "InvertedPower"
            /\ \A n \in DOMAIN olmcs :
                 ( /\ last'.eqn.lhs.kind = "Pin" /\ last'.eqn.lhs.pin.pin = OP(chip, n)
                   /\ last'.eqn.lhs.suffix \in {"None", "T", "R"}
                   /\ ~IsSome(olmcs[n].output) ) =>
                   /\ pc' = "blueprint"
                   /\ IsSome(olmcs'[n].output)
                   /\ HasPower(chip, olmcs'[n].output.term)
        /\ (Registered /\ NegPower(chip, last'.eqn) /\ Len(last'.eqn.rhs) > 1) =>
            err'.code # "InvertedPower"
        /\ (pc = "terms" /\ last'.op = "write_terms" /\ C8_Among(chip, builder.olmcs) # {}) =>
            /\ pc' = "error"
            /\ err'.code # "InvertedPower"]_vars
  /\ [](pc = "terms" =>
          /\ \A e \in C8_Among(chip, builder.olmcs) :
               \A r \in {gal_builder_add_equation([gal |-> gal, err |-> NoError], olmcs, e)} :
                 /\ r.err.line = e.line_num
                 /\ \/ r.err.code = "BadPower"
                    \/ /\ r.err.code \in {"NotAnInput", "TooManyProducts"}
                       /\ ~(e.rhs[1].neg /\ e.rhs[1].pin \in {VCC(chip), GND(chip)})
          /\ C8_Among(chip, builder.olmcs) # {} =>
               \A w \in {write_olmcs([gal |-> gal, err |-> NoError], olmcs, builder.olmcs, 0)} :
                 w.err.code \notin {"None", "Panic", "InvertedPower"})

\* An equation with `/VCC` among two pins was accepted into the blueprint
\* and the build has failed on it with BadPower.
C8_Witness ==
  /\ pc = "error" /\ err.code = "BadPower" /\ last.op = "write_terms"
  /\ IsSome(olmcs[3].output)
  /\ olmcs[3].output.term.line_num = err.line
  /\ \E k \in 1..Len(olmcs[3].output.term.pins) : \E j \in 1..Len(olmcs[3].output.term.pins[k]) :
       olmcs[3].output.term.pins[k][j] = Pin(VCC(chip), TRUE)

----------------------------------------------------------------------------
(* The fuse-programming primitive on its own: add_term and add_term_opt
   are applied, one term after the other, to the fuse state of a blueprint
   whose mode has been analysed. *)

\* The number of terms added.
MaxTerms == 2

\* The blueprints analysed: OLMC 1 has an output of mode m, the pins of
\* OLMC 0 and OLMC 7 are used as inputs.
TermBlueprint(c, m) ==
  [Blueprint_new(c) EXCEPT ![1].output = SomeOutput(m, MkTerm(5, << <<Pin(2, FALSE)>> >>)),
                           ![1].active = "High",
                           ![0].feedback = TRUE,
                           ![7].feedback = TRUE]

\* n products of one pin each.
Products(line_num, n) == MkTerm(line_num, [k \in 1..n |-> <<Pin(2, (k % 2) = 0)>>])

\* The number of rows of a slot.
Capacity(bounds) == bounds.max_row - bounds.row_offset

\* The rows of the GAL22V10's global AR and SP terms: the first and the
\* last row of the fuse array.
ar_bounds == [start_row |-> 0, max_row |-> 1, row_offset |-> 0]

sp_bounds == [start_row |-> 131, max_row |-> 1, row_offset |-> 0]

\* The bounds terms are written into: those of the output, the enable and
\* (GAL20RA10) the clock of OLMC 1, and (GAL22V10) of AR and SP.
BoundsMenu ==
  UNION {IF get_bounds(gal, 1, olmcs, x).ok THEN {get_bounds(gal, 1, olmcs, x).val} ELSE {} :
           x \in {"None", "E"} \cup (IF chip = "GAL20RA10" THEN {"CLK"} ELSE {})}
  \cup (IF chip = "GAL22V10" THEN {ar_bounds, sp_bounds} ELSE {})

\* The terms written into a slot: one product, as many as the slot has rows
\* and one more; VCC and GND; products that read the pins of OLMC 0 and 7.
TermMenu(c, line_num, bounds) ==
  {Products(line_num, n) : n \in {1, Capacity(bounds), Capacity(bounds) + 1}}
  \cup { true_term(line_num), false_term(line_num),
         MkTerm(line_num, << <<Pin(OP(c, 0), FALSE), Pin(3, TRUE)>> >>),
         MkTerm(line_num, << <<Pin(3, FALSE), Pin(OP(c, 7), TRUE)>> >>) }

InitTerm ==
  /\ chip \in Chips
  /\ pc = "term"
  /\ \E m \in {"Combinatorial", "Tristate", "Registered"} :
       \E r \in {analyse_mode(GAL_new(chip), TermBlueprint(chip, m))} :
         gal = r.gal /\ olmcs = r.olmcs
  /\ ar = None
  /\ sp = None
  /\ neqn = 0
  /\ err = NoError
  /\ last = NoLast
  /\ fuse_builder = FuseBuilder_new
  /\ wpos = 0
  /\ config = NoConfig
  /\ jedec = <<>>
  /\ file = <<>>
  /\ parser = NoParser
  /\ builder = NoBuilder

\* gal.add_term(term, bounds)?
AddTerm ==
  /\ pc = "term"
  /\ neqn < MaxTerms
  /\ \E b \in BoundsMenu : \E t \in TermMenu(chip, neqn + 5, b) :
       \E r \in {add_term(gal, t, b)} :
         /\ gal' = r.gal
         /\ err' = r.err
         /\ pc' = IF r.err = NoError THEN "term" ELSE "error"
         /\ last' = [op |-> "add_term", term |-> t, bounds |-> b]
  /\ neqn' = neqn + 1
  /\ UNCHANGED <<config, jedec, file, parser, chip, olmcs, ar, sp, fuse_builder, wpos, builder>>

\* gal.add_term_opt(term, bounds)?
AddTermOpt ==
  /\ pc = "term"
  /\ neqn < MaxTerms
  /\ \E b \in BoundsMenu : \E t \in {None, Products(neqn + 5, 1)} :
       \E r \in {add_term_opt(gal, t, b)} :
         /\ gal' = r.gal
         /\ err' = r.err
         /\ pc' = IF r.err = NoError THEN "term" ELSE "error"
         /\ last' = [op |-> "add_term_opt", term |-> t, bounds |-> b]
  /\ neqn' = neqn + 1
  /\ UNCHANGED <<config, jedec, file, parser, chip, olmcs, ar, sp, fuse_builder, wpos, builder>>

NextTerm == AddTerm \/ AddTermOpt

SpecTerm == InitTerm /\ [][NextTerm]_vars

----------------------------------------------------------------------------
(* Properties of add_term *)

\* The step just taken placed last'.term in last'.bounds.
AddedTerm == pc = "term" /\ last'.op = "add_term"

\* Every pin of the products 1..n of the term maps to a fuse column.
PinsUsable(g, term, n) ==
  \A k \in 1..n : \A j \in 1..Len(term.pins[k]) : pin_to_column(g, term.pins[k][j].pin).ok

\* Every fuse of the row is false.
RowClear(g, r) == \A c \in DOMAIN g.fuses[r] : ~g.fuses[r][c]

\* C5: add_term succeeds for a term with exactly max_row - row_offset
\* product groups (of usable pins) and fails for a term with one more
\* group, with MoreThanOneProduct when the slot is a single row
\* (max_row = row_offset + 1 at entry) and with TooManyProducts otherwise,
\* at the line of the term; no row at or beyond start_row + max_row, and
\* none before the slot, is ever written.
C5 ==
  [][AddedTerm =>
       LET t == last'.term
           b == last'.bounds
       IN /\ (Len(t.pins) = Capacity(b) /\ PinsUsable(gal, t, Len(t.pins))) =>
               pc' = "term" /\ err' = NoError
          /\ (Len(t.pins) = Capacity(b) + 1 /\ PinsUsable(gal, t, Capacity(b))) =>
               /\ pc' = "error"
               /\ err'.code = (IF b.max_row = b.row_offset + 1 THEN "MoreThanOneProduct" ELSE "TooManyProducts")
               /\ err'.line = t.line_num
          /\ \A r \in DOMAIN gal.fuses :
               (r >= b.start_row + b.max_row \/ r < b.start_row + b.row_offset) =>
                 gal'.fuses[r] = gal.fuses[r]]_vars

\* A term with one product more than its slot of several rows holds has
\* been refused, after every row of the slot had been written.
C5_Witness ==
  /\ pc = "error" /\ last.op = "add_term"
  /\ err.code = "TooManyProducts"
  /\ Capacity(last.bounds) > 1
  /\ Len(last.term.pins) = Capacity(last.bounds) + 1
  /\ \A r \in (last.bounds.start_row + last.bounds.row_offset)..(last.bounds.start_row + last.bounds.max_row - 1) :
       \E c \in DOMAIN gal.fuses[r] : ~gal.fuses[r][c]

\* C6: true_term placed in a slot leaves every fuse of the slot's first row
\* (start_row + row_offset) as it was and sets every fuse of the remaining
\* rows of the slot to false; false_term, and an absent term placed through
\* add_term_opt, set every fuse of the rows
\* [start_row + row_offset, start_row + max_row) to false.
C6 ==
  [][(pc = "term" /\ last'.op \in {"add_term", "add_term_opt"}) =>
       LET t == last'.term
           first == last'.bounds.start_row + last'.bounds.row_offset
           end == last'.bounds.start_row + last'.bounds.max_row
       IN /\ (last'.op = "add_term" /\ t.pins = << <<>> >>) =>
               /\ err' = NoError
               /\ gal'.fuses[first] = gal.fuses[first]
               /\ \A r \in (first + 1)..(end - 1) : RowClear(gal', r)
          /\ (IF IsSome(t) THEN last'.op = "add_term" /\ t.pins = <<>> ELSE last'.op = "add_term_opt") =>
               /\ err' = NoError
               /\ \A r \in first..(end - 1) : RowClear(gal', r)]_vars

\* true_term has been placed in a slot of several rows whose first row an
\* earlier term had written.
C6_Witness ==
  /\ pc = "term" /\ last.op = "add_term" /\ neqn = 2
  /\ last.term.pins = << <<>> >>
  /\ Capacity(last.bounds) > 1
  /\ \E c \in DOMAIN gal.fuses[last.bounds.start_row + last.bounds.row_offset] :
       ~gal.fuses[last.bounds.start_row + last.bounds.row_offset][c]
  /\ \E c \in DOMAIN gal.fuses[last.bounds.start_row + last.bounds.row_offset] :
       gal.fuses[last.bounds.start_row + last.bounds.row_offset][c]

\* The pins the claim is about.
C9_Pins(c) == IF c = "GAL16V8" THEN {12, 19} ELSE {15, 22}

\* The fuse column of these pins in Simple mode.
C9_Column(c, pin_num) ==
  CASE c = "GAL16V8" /\ pin_num = 12 -> 26
    [] c = "GAL16V8" /\ pin_num = 19 -> 6
    [] c = "GAL20V8" /\ pin_num = 15 -> 30
    [] c = "GAL20V8" /\ pin_num = 22 -> 10

\* gal.rs spells NotAnComplexModeInput as one code per chip.
NotAnComplexModeInput(c) == IF c = "GAL16V8" THEN "NotAnInput1219" ELSE "NotAnInput1522"

\* C9: on the GAL16V8 a term that uses pin 12 or pin 19 as an input (with
\* plain input pins besides, in a slot large enough) fails with
\* NotAnComplexModeInput, at its line, when the device is in Complex mode;
\* in Simple mode it is accepted and the fuse of the pin's column is
\* cleared; the same for pins 15 and 22 of the GAL20V8.
C9 ==
  [][(AddedTerm /\ chip \in V8) =>
       \A k \in 1..Len(last'.term.pins) : \A j \in 1..Len(last'.term.pins[k]) :
         LET t == last'.term
             p == t.pins[k][j]
             row == last'.bounds.start_row + last'.bounds.row_offset + k - 1
         IN ( /\ p.pin \in C9_Pins(chip)
              /\ Len(t.pins) <= Capacity(last'.bounds)
              /\ \A k2 \in 1..Len(t.pins) : \A j2 \in 1..Len(t.pins[k2]) :
                   t.pins[k2][j2].pin \in (2..9) \cup C9_Pins(chip) ) =>
              /\ (gal.syn /\ gal.ac0) =>
                   /\ pc' = "error"
                   /\ err'.code = NotAnComplexModeInput(chip)
                   /\ err'.line = t.line_num
              /\ (gal.syn /\ ~gal.ac0) =>
                   /\ pc' = "term" /\ err' = NoError
                   /\ ~gal'.fuses[row][C9_Column(chip, p.pin) + (IF p.neg THEN 1 ELSE 0)]]_vars

\* A term that reads pin 19 has been refused on a GAL16V8 in Complex mode.
C9_Witness ==
  /\ pc = "error" /\ chip = "GAL16V8" /\ last.op = "add_term"
  /\ gal.syn /\ gal.ac0
  /\ err.code = "NotAnInput1219"
  /\ \E k \in 1..Len(last.term.pins) : \E j \in 1..Len(last.term.pins[k]) : last.term.pins[k][j].pin = 19

----------------------------------------------------------------------------
(* Properties of the clock of the GAL20RA10 *)

\* The OLMCs with a registered output and no .CLK term.
C17_Unclocked(os) ==
  { n \in DOMAIN os : IsSome(os[n].output) /\ os[n].output.mode = "Registered" /\ ~os[n].clock.some }

\* C17: on GAL20RA10, no build of a design that holds an OLMC with a
\* registered output and no .CLK term succeeds, and once the mode of such
\* a design is analysed, writing the terms fails with NoCLK at the line of
\* the base output equation of such an OLMC (the first of them).
C17 ==
  /\ []((chip = "GAL20RA10" /\ pc = "done") => C17_Unclocked(olmcs) = {})
  /\ [][(pc = "analyse" /\ chip = "GAL20RA10") => C17_Unclocked(olmcs') = C17_Unclocked(olmcs)]_vars
  /\ [][(pc = "terms" /\ chip = "GAL20RA10" /\ C17_Unclocked(olmcs) # {}) =>
          /\ pc' = "error"
          /\ err'.code = "NoCLK"
          /\ \E n \in C17_Unclocked(olmcs) :
               /\ \A k \in C17_Unclocked(olmcs) : n <= k
               /\ err'.line = olmcs[n].output.term.line_num]_vars

\* The fuse builder has refused a GAL20RA10 whose registered output, set
\* by the second equation of the file, has no clock: the error is NoCLK
\* and names no line.
C17_Witness ==
  /\ pc = "error" /\ chip = "GAL20RA10" /\ last.op = "write_terms"
  /\ err.code = "NoCLK" /\ err.line = 0
  /\ C17_Unclocked(olmcs) # {}
  /\ \E n \in C17_Unclocked(olmcs) : olmcs[n].output.term.line_num = 6

----------------------------------------------------------------------------
(* Properties of the AR and SP rows of the GAL22V10 *)

\* The error of a code and suffix at the line of a term.
ErrAt(code, suffix, term) == [code |-> code, suffix |-> suffix, line |-> term.line_num]

\* The fuse an input of a product takes in its row.
C18_Column(g, input) ==
  pin_to_column(g, input.pin).val + (IF input.neg # needs_flip(g, input.pin) THEN 1 ELSE 0)

\* The row a single-row slot holds once the term is written into it: all
\* false for an absent term and for a term of no product, else false at
\* the fuses of the inputs of the only product and untouched elsewhere.
C18_Row(g, term) ==
  [col \in 0..(num_cols(g.chip) - 1) |->
     IF ~IsSome(term) THEN FALSE
     ELSE IF Len(term.pins) = 0 THEN FALSE
     ELSE \A k \in 1..Len(term.pins[1]) : C18_Column(g, term.pins[1][k]) # col]

\* The term is absent or has at most one product.
C18_Single(term) == ~IsSome(term) \/ Len(term.pins) <= 1

\* The rows of the OLMCs of the GAL22V10 lie between row 1 and row 130,
\* and every table has an entry for each of the 10 OLMCs.
C18_Tables ==
  /\ num_olmcs("GAL22V10") = 10
  /\ Len(OLMC_ROWS_22V10) = 10 /\ Len(OLMC_SIZE_22V10) = 10
  /\ num_rows("GAL22V10") = 132
  /\ \A n \in 0..9 :
       /\ 1 <= start_row_for_olmc("GAL22V10", n)
       /\ start_row_for_olmc("GAL22V10", n) + num_rows_for_olmc("GAL22V10", n) <= 131

\* The second pass on a GAL22V10 whose OLMCs were written as w: an AR or SP
\* term of several products is refused, else row 0 holds AR, row 131 holds
\* SP and the rows between them are those of the OLMCs.
C18_Written(w) ==
  IF w.err # NoError THEN pc' = "error" /\ err' = w.err
  ELSE IF ~C18_Single(ar) THEN pc' = "error" /\ err' = ErrAt("MoreThanOneProduct", "", ar)
  ELSE IF ~C18_Single(sp) THEN pc' = "error" /\ err' = ErrAt("MoreThanOneProduct", "", sp)
  ELSE /\ pc' = "done"
       /\ DOMAIN gal'.fuses = 0..131
       /\ gal'.fuses[0] = C18_Row(gal, ar)
       /\ gal'.fuses[131] = C18_Row(gal, sp)
       /\ \A row \in 1..130 : gal'.fuses[row] = w.gal.fuses[row]

\* C18: on GAL22V10 the fuse builder writes the AR term into row 0 and the
\* SP term into row 131, each a slot of a single row; the row of an absent
\* AR or SP is set entirely to false; every table is read within its 10
\* entries and the rows of the 10 OLMCs lie strictly between the two rows.
C18 ==
  /\ [](chip = "GAL22V10" => C18_Tables /\ DOMAIN olmcs = 0..9)
  /\ [][(pc = "terms" /\ chip = "GAL22V10" /\ last'.op = "write_terms") =>
          \A w \in {write_olmcs([gal |-> gal, err |-> NoError], olmcs, builder.olmcs, 0)} : C18_Written(w)]_vars

\* The second pass has run on a GAL22V10 design without equations, whose
\* AR and SP terms are absent: the rows of the OLMCs are written, the
\* access to the row table for OLMC 10 has panicked, and the rows 0 and
\* 131 are as GAL::new left them.
C18_Witness ==
  /\ pc = "error" /\ chip = "GAL22V10" /\ last.op = "write_terms"
  /\ err = Panic
  /\ ~IsSome(ar) /\ ~IsSome(sp) /\ Len(parser.eqns) = 0
  /\ \A col \in 0..43 : gal.fuses[0][col] /\ gal.fuses[131][col]
  /\ \A row \in 1..130 : \A col \in 0..43 : ~gal.fuses[row][col]

----------------------------------------------------------------------------
(* Properties of the feedback pins of the Simple mode *)

\* The pins whose entry in the Simple mode table of the chip is BadAnalysis.
C19_Reserved(c) ==
  { p \in 1..num_pins(c) : table_at(column_table(c, "Simple"), p) = BAD }

\* The terms an OLMC holds.
C19_Terms(olmc) ==
  (IF IsSome(olmc.output) THEN {olmc.output.term} ELSE {})
    \cup { t \in {olmc.tri_con, olmc.clock, olmc.arst, olmc.aprst} : IsSome(t) }

\* The pins the term reads.
C19_Pins(term) ==
  { term.pins[i][k].pin : <<i, k>> \in { x \in (1..Len(term.pins)) \X (1..8) : x[2] <= Len(term.pins[x[1]]) } }

\* No pin of the set provides feedback and no term of the blueprint reads one.
C19_Unused(c, os, pins) ==
  /\ \A n \in DOMAIN os : OP(c, n) \in pins => ~os[n].feedback
  /\ \A n \in DOMAIN os : \A t \in C19_Terms(os[n]) : C19_Pins(t) \cap pins = {}

\* The mode analysis has run on a GAL16V8 or GAL20V8.
C19_Analysed ==
  chip \in V8 /\ (pc \in {"terms", "done"} \/ (pc = "error" /\ last.op = "write_terms"))

\* C19: the pins of the Simple mode table with a BadAnalysis entry are 15
\* and 16 on GAL16V8 and 18 and 19 on GAL20V8; whenever the mode analysis
\* has chosen the Simple mode, none of them provides feedback and no term
\* of the blueprint reads one; the fuse builder never returns BadAnalysis.
C19 ==
  /\ C19_Reserved("GAL16V8") = {15, 16}
  /\ C19_Reserved("GAL20V8") = {18, 19}
  /\ (C19_Analysed /\ get_mode(gal) = "Simple") => C19_Unused(chip, olmcs, C19_Reserved(chip))
  /\ err.code # "BadAnalysis"

\* A GAL16V8 was built in the Simple mode from a design whose output reads
\* the pin of another OLMC, one that the Simple mode admits as an input.
C19_Witness ==
  /\ pc = "done" /\ chip = "GAL16V8" /\ get_mode(gal) = "Simple"
  /\ \E n \in DOMAIN olmcs : olmcs[n].feedback /\ ~IsSome(olmcs[n].output)
  /\ \E n \in DOMAIN olmcs : \E t \in C19_Terms(olmcs[n]) :
        \E p \in C19_Pins(t) : pin_to_olmc(chip, p).some

----------------------------------------------------------------------------
(* Properties of the feedback flags *)

\* The OLMCs whose pin is on the right-hand side of the equation.
C20_Inputs(c, eqn) ==
  { pin_to_olmc(c, eqn.rhs[k].pin).val : k \in { j \in 1..Len(eqn.rhs) : pin_to_olmc(c, eqn.rhs[j].pin).some } }

\* The OLMCs whose feedback flag is set.
C20_Feedback(os) == { n \in DOMAIN os : os[n].feedback }

\* C20: add_equation sets the feedback flag of every OLMC whose pin is on
\* the right-hand side of the equation, and of no other, whether the
\* equation is then accepted or rejected and whether or not the OLMC has
\* an output; no step of the pipeline clears a feedback flag.
C20 ==
  /\ [][(pc = "blueprint" /\ last'.op = "add_equation") =>
          C20_Feedback(olmcs') = C20_Feedback(olmcs) \cup C20_Inputs(chip, last'.eqn)]_vars
  /\ [][C20_Feedback(olmcs) \subseteq C20_Feedback(olmcs')]_vars

\* The second equation of the file was rejected; the OLMC of a pin of its
\* right-hand side has no output, is read by no term of the blueprint and
\* provides feedback.
C20_Witness ==
  /\ pc = "error" /\ last.op = "add_equation" /\ ~last.res.ok /\ neqn = 2
  /\ \E n \in C20_Inputs(chip, last.eqn) :
       /\ olmcs[n].feedback
       /\ ~IsSome(olmcs[n].output)
       /\ \A m \in DOMAIN olmcs : \A t \in C19_Terms(olmcs[m]) : OP(chip, n) \notin C19_Pins(t)

----------------------------------------------------------------------------
(* The setters of an OLMC, called one after the other on one OLMC: olmcs
   holds that OLMC alone, last the call and its Result. *)

\* The number of calls.
MaxCalls == 3

\* The term handed to the k-th call: its line tells it from the others.
SetterTerms(k) == { MkTerm(k + 4, << <<Pin(2, FALSE)>> >>) }

\* The pins handed to a call: the pin of the OLMC, plain and negated.
SetterPins == { Pin(OP(chip, 0), neg) : neg \in BOOLEAN }

\* The setters do not look at the chip: the OLMC is one of a GAL20RA10, the
\* chip that has every control term.
InitSetter ==
  /\ chip = "GAL20RA10"
  /\ pc = "setter"
  /\ olmcs = [i \in 0..0 |-> NewOLMC]
  /\ ar = None
  /\ sp = None
  /\ neqn = 0
  /\ err = NoError
  /\ gal = NoGAL
  /\ last = NoLast
  /\ fuse_builder = FuseBuilder_new
  /\ wpos = 0
  /\ config = NoConfig
  /\ jedec = <<>>
  /\ file = <<>>
  /\ parser = NoParser
  /\ builder = NoBuilder

\* The call op(pin, term, ...) has returned r.
Called(op, pin, term, r) ==
  /\ pc = "setter"
  /\ neqn < MaxCalls
  /\ olmcs' = [olmcs EXCEPT ![0] = r.olmc]
  /\ last' = [op |-> op, pin |-> pin, term |-> term, res |-> r.res]
  /\ neqn' = neqn + 1
  /\ UNCHANGED <<config, jedec, file, parser, chip, pc, ar, sp, err, gal, fuse_builder, wpos, builder>>

\* olmc.set_base(&pin, term, pin_mode)
SetBase ==
  \E pin \in SetterPins : \E term \in SetterTerms(neqn + 1) :
    \E pin_mode \in {"Combinatorial", "Tristate", "Registered"} :
      Called("set_base", pin, term, set_base(olmcs[0], pin, term, pin_mode))

\* olmc.set_enable(&pin, term)
SetEnable ==
  \E pin \in SetterPins : \E term \in SetterTerms(neqn + 1) :
    Called("set_enable", pin, term, set_enable(olmcs[0], pin, term))

\* olmc.set_clock(&pin, term)
SetClock ==
  \E pin \in SetterPins : \E term \in SetterTerms(neqn + 1) :
    Called("set_clock", pin, term, set_clock(olmcs[0], pin, term))

\* olmc.set_arst(&pin, term)
SetArst ==
  \E pin \in SetterPins : \E term \in SetterTerms(neqn + 1) :
    Called("set_arst", pin, term, set_arst(olmcs[0], pin, term))

\* olmc.set_aprst(&pin, term)
SetAprst ==
  \E pin \in SetterPins : \E term \in SetterTerms(neqn + 1) :
    Called("set_aprst", pin, term, set_aprst(olmcs[0], pin, term))

NextSetter == SetBase \/ SetEnable \/ SetClock \/ SetArst \/ SetAprst

SpecSetter == InitSetter /\ [][NextSetter]_vars

----------------------------------------------------------------------------
(* Properties of the control setters *)

\* The control setters: the field each one sets and the suffix it reports.
C21_Setters ==
  { [op |-> "set_enable", field |-> "tri_con", suffix |-> "E"],
    [op |-> "set_clock", field |-> "clock", suffix |-> "CLK"],
    [op |-> "set_arst", field |-> "arst", suffix |-> "ARST"],
    [op |-> "set_aprst", field |-> "aprst", suffix |-> "APRST"] }

\* The fields of an OLMC.
C21_Fields == {"active", "output", "tri_con", "clock", "arst", "aprst", "feedback"}

\* The call last' of the setter x on the OLMC old has left the OLMC new.
C21_Effect(x, old, new) ==
  IF last'.pin.neg
  THEN last'.res = ErrS("InvertedControl", x.suffix) /\ new = old
  ELSE IF IsSome(old[x.field])
  THEN last'.res = ErrS("RepeatedControl", x.suffix) /\ new = old
  ELSE /\ last'.res.ok
       /\ new[x.field] = last'.term
       /\ \A f \in C21_Fields \ {x.field} : new[f] = old[f]

\* C21: a control setter fails with InvertedControl when the pin is
\* negated, else with RepeatedControl when its term is already set, and in
\* both cases leaves the OLMC as it was; else it succeeds and changes only
\* its own field, which becomes the term.
C21 ==
  [][\A x \in C21_Setters :
       (pc = "setter" /\ last'.op = x.op /\ neqn' = neqn + 1) => C21_Effect(x, olmcs[0], olmcs'[0])]_vars

\* set_enable was called with a negated pin on an OLMC whose enable term
\* was set by the first call: it returned InvertedControl and the term of
\* the first call is still there.
C21_Witness ==
  /\ pc = "setter" /\ last.op = "set_enable" /\ last.pin.neg
  /\ last.res = ErrS("InvertedControl", "E")
  /\ IsSome(olmcs[0].tri_con) /\ olmcs[0].tri_con.line_num = 5
  /\ last.term.line_num > 5
  /\ IsSome(olmcs[0].clock)

----------------------------------------------------------------------------
(* Properties of the AC1 bits of the GAL16V8 and GAL20V8 *)

\* The AC1 bit the claim gives an OLMC as the blueprint holds it, the mode
\* analysis having chosen the mode.
C22_Bit(olmc, mode) ==
  \/ HasMode(olmc, "Tristate")
  \/ HasMode(olmc, "Combinatorial") /\ mode # "Simple"
  \/ ~IsSome(olmc.output) /\ olmc.feedback

\* The mode analysis turns the combinatorial output old into new: a
\* tristate output whose enable is true_term, unless the mode is Simple.
C22_Emulated(old, new, mode) ==
  IF mode = "Simple" THEN new.output.mode = "ComOut" /\ new.tri_con = old.tri_con
  ELSE /\ new.output.mode = "Tristate"
       /\ new.output.term = old.output.term
       /\ new.tri_con = true_term(old.output.term.line_num)

\* C22: on GAL16V8 and GAL20V8 the mode analysis leaves ac1[7 - i] true
\* exactly when OLMC i has a tristate output, or a combinatorial output in
\* a mode other than Simple (which it turns into a tristate output enabled
\* by true_term), or no output and its feedback flag set; the bits stay as
\* they are while the terms are written.
C22 ==
  /\ [][(pc = "analyse" /\ chip \in V8 /\ last'.op = "analyse_mode") =>
          \A i \in 0..7 :
            /\ gal'.ac1[num_olmcs(chip) - 1 - i] = C22_Bit(olmcs[i], get_mode(gal'))
            /\ HasMode(olmcs[i], "Combinatorial") => C22_Emulated(olmcs[i], olmcs'[i], get_mode(gal'))
            /\ HasMode(olmcs[i], "Registered") => ~gal'.ac1[num_olmcs(chip) - 1 - i]
            /\ (~IsSome(olmcs[i].output) /\ ~olmcs[i].feedback) => ~gal'.ac1[num_olmcs(chip) - 1 - i]]_vars
  /\ [][(pc = "terms" /\ chip \in V8) => gal'.ac1 = gal.ac1]_vars

\* A GAL16V8 in Registered mode after the analysis: a combinatorial output
\* has become a tristate output enabled by true_term and its bit is set,
\* the bit of a registered output is clear.
C22_Witness ==
  /\ pc = "terms" /\ chip = "GAL16V8" /\ get_mode(gal) = "Registered"
  /\ \E i \in 0..7 :
       /\ HasMode(olmcs[i], "Tristate")
       /\ olmcs[i].tri_con = true_term(olmcs[i].output.term.line_num)
       /\ gal.ac1[7 - i]
  /\ \E j \in 0..7 : HasMode(olmcs[j], "Registered") /\ ~gal.ac1[7 - j]

----------------------------------------------------------------------------
(* Properties of the XOR bits *)

\* The mode analysis of the fuse builder has run.
C23_Analysed == pc \in {"terms", "done"} \/ (pc = "error" /\ last.op = "write_terms")

\* The step just taken gave the OLMC of the left-hand side its output.
C23_Defined ==
  /\ pc = "blueprint" /\ last'.op = "add_equation" /\ last'.res.ok
  /\ last'.eqn.lhs.kind = "Pin" /\ last'.eqn.lhs.suffix \in {"None", "T", "R"}

\* C23: once the fuse builder has analysed the mode, xor[num_olmcs - 1 - i]
\* is true exactly when OLMC i has an output and is active High; an OLMC is
\* active High exactly when the left-hand side that defined its output
\* was not negated, and an OLMC without an output is active Low whatever
\* other equations it has.
C23 ==
  /\ [](C23_Analysed =>
          \A i \in DOMAIN olmcs :
            gal.xor[num_olmcs(chip) - 1 - i] = (IsSome(olmcs[i].output) /\ olmcs[i].active = "High"))
  /\ [](\A i \in DOMAIN olmcs : ~IsSome(olmcs[i].output) => olmcs[i].active = "Low")
  /\ [][C23_Defined =>
          \A o \in {pin_to_olmc(chip, last'.eqn.lhs.pin.pin).val} :
            /\ IsSome(olmcs'[o].output) /\ ~IsSome(olmcs[o].output)
            /\ olmcs'[o].active = (IF last'.eqn.lhs.pin.neg THEN "Low" ELSE "High")]_vars
  /\ [][\A i \in DOMAIN olmcs : IsSome(olmcs[i].output) => olmcs'[i].active = olmcs[i].active]_vars

\* The mode has been analysed for a design with an output defined by a
\* plain left-hand side, whose bit is set, an output defined by a negated
\* one, whose bit is clear, and an OLMC that is only read, whose bit is
\* clear.
C23_Witness ==
  /\ pc = "terms"
  /\ \E i \in DOMAIN olmcs : IsSome(olmcs[i].output) /\ olmcs[i].active = "High" /\ gal.xor[num_olmcs(chip) - 1 - i]
  /\ \E j \in DOMAIN olmcs : IsSome(olmcs[j].output) /\ olmcs[j].active = "Low" /\ ~gal.xor[num_olmcs(chip) - 1 - j]
  /\ \E k \in DOMAIN olmcs : ~IsSome(olmcs[k].output) /\ olmcs[k].feedback /\ ~gal.xor[num_olmcs(chip) - 1 - k]

----------------------------------------------------------------------------
(* Properties of the slots of the terms of an OLMC *)

\* The rows of a slot.
C24_Rows(b) == (b.start_row + b.row_offset)..(b.start_row + b.max_row - 1)

\* The slot get_bounds gives the term of the suffix in OLMC n.
C24_Slot(n, suffix) == get_bounds(gal, n, olmcs, suffix).val

\* The row offset the main term of OLMC n is to start at.
C24_MainOffset(n) ==
  CASE chip \in V8 -> (IF get_mode(gal) # "Simple" /\ ~HasMode(olmcs[n], "Registered") THEN 1 ELSE 0)
    [] chip = "GAL22V10" -> 1
    [] chip = "GAL20RA10" -> 4

\* The slot of the main term of OLMC n starts at the offset it is to start
\* at and ends with the OLMC; the enable term has the first row of the
\* OLMC alone and, on GAL20RA10, .CLK, .ARST and .APRST the three next.
C24_Layout(n) ==
  /\ C24_Rows(C24_Slot(n, "None")) =
       (start_row_for_olmc(chip, n) + C24_MainOffset(n))..(start_row_for_olmc(chip, n) + num_rows_for_olmc(chip, n) - 1)
  /\ C24_Rows(C24_Slot(n, "E")) = {start_row_for_olmc(chip, n)}
  /\ chip = "GAL20RA10" =>
       /\ C24_Rows(C24_Slot(n, "CLK")) = {start_row_for_olmc(chip, n) + 1}
       /\ C24_Rows(C24_Slot(n, "ARST")) = {start_row_for_olmc(chip, n) + 2}
       /\ C24_Rows(C24_Slot(n, "APRST")) = {start_row_for_olmc(chip, n) + 3}

\* The suffixes of the control terms OLMC n holds.
C24_Controls(n) == { x \in ControlSuffixes : IsSome(ControlTerm(olmcs[n], x)) }

\* C24: when the terms are written, the slot of every term of every OLMC
\* is the one laid out above, and the slot of a control term an OLMC holds
\* has no row in common with the slot of its main term.
C24 ==
  pc = "terms" =>
    \A n \in DOMAIN olmcs :
      /\ C24_Layout(n)
      /\ \A x \in C24_Controls(n) : C24_Rows(C24_Slot(n, x)) \cap C24_Rows(C24_Slot(n, "None")) = {}

\* The terms of a GAL16V8 are about to be written whose first OLMC has a
\* registered output and a .CLK term, which the first pass has accepted:
\* the main term has its slot where it is to be, and the slot of the .CLK
\* term is that same slot.
C24_Witness ==
  /\ pc = "terms" /\ chip = "GAL16V8" /\ get_mode(gal) = "Registered"
  /\ HasMode(olmcs[0], "Registered") /\ "CLK" \in C24_Controls(0)
  /\ builder.olmcs[0].pin_type = "REGOUT" /\ builder.olmcs[0].clock = 1
  /\ C24_Layout(0)
  /\ C24_Slot(0, "None").row_offset = 0
  /\ C24_Rows(C24_Slot(0, "CLK")) = C24_Rows(C24_Slot(0, "None"))

----------------------------------------------------------------------------
(* Properties of the products of a parsed equation *)

\* The groups one after the other, from the k-th on.
RECURSIVE C25_Flatten(_, _)
C25_Flatten(groups, k) ==
  IF k > Len(groups) THEN <<>> ELSE groups[k] \o C25_Flatten(groups, k + 1)

\* The position in the flattened groups of the first pin of group j.
RECURSIVE C25_Start(_, _)
C25_Start(groups, j) ==
  IF j = 1 THEN 1 ELSE C25_Start(groups, j - 1) + Len(groups[j - 1])

\* The positions of the flags that are true.
C25_Flags(is_or) == { k \in 1..Len(is_or) : is_or[k] }

\* The right-hand side is the single pin VCC or GND.
C25_Power(c, eqn) ==
  Len(eqn.rhs) = 1 /\ eqn.rhs[1].pin \in {num_pins(c), num_pins(c) \div 2}

\* The term is the one the claim gives the equation: one product more than
\* flags are true, none empty, the pins of rhs in their order, a product
\* starting at each flag.
C25_Grouped(eqn, t) ==
  /\ t.ok
  /\ t.val.line_num = eqn.line_num
  /\ Len(t.val.pins) = 1 + Cardinality(C25_Flags(eqn.is_or))
  /\ \A j \in 1..Len(t.val.pins) : Len(t.val.pins[j]) >= 1
  /\ C25_Flatten(t.val.pins, 1) = eqn.rhs
  /\ { C25_Start(t.val.pins, j) : j \in 2..Len(t.val.pins) } = C25_Flags(eqn.is_or)

\* C25: every equation the parser has produced has as many flags as pins
\* and a first flag that is false, and eqn_to_term groups its pins as the
\* flags say, unless the right-hand side is VCC or GND alone.
C25 ==
  \A n \in 1..Len(parser.eqns) :
    \A eqn \in {parser.eqns[n]} :
      /\ Len(eqn.is_or) = Len(eqn.rhs)
      /\ Len(eqn.rhs) >= 1
      /\ ~eqn.is_or[1]
      /\ ~C25_Power(chip, eqn) => C25_Grouped(eqn, eqn_to_term(chip, eqn))

\* The file was parsed and holds an equation of several products, one of
\* them of two pins.
C25_Witness ==
  /\ pc = "content"
  /\ \E n \in 1..Len(parser.eqns) :
       \E t \in {eqn_to_term(chip, parser.eqns[n])} :
         /\ t.ok /\ Len(t.val.pins) >= 3
         /\ \E j \in 1..Len(t.val.pins) : Len(t.val.pins[j]) = 2

----------------------------------------------------------------------------
(* Properties of the pin to column tables *)

\* The modes a chip has a table for.
C26_Modes(c) == IF c \in {"GAL16V8", "GAL20V8"} THEN {"Simple", "Complex", "Registered"} ELSE {"None"}

\* The entry of pin p in the table of the chip and mode.
C26_Entry(c, mode, p) == table_at(column_table(c, mode), p)

\* The table of the chip and mode: an entry for each pin, BadPower for GND
\* and VCC, the columns even, inside the row with the fuse that follows
\* them, and different for different pins.
C26_Table(c, mode) ==
  /\ Len(column_table(c, mode)) = num_pins(c)
  /\ C26_Entry(c, mode, num_pins(c) \div 2) = Err("BadPower")
  /\ C26_Entry(c, mode, num_pins(c)) = Err("BadPower")
  /\ \A p \in 1..num_pins(c) : \A e \in {C26_Entry(c, mode, p)} : \A cols \in {num_cols(c)} :
       e.ok =>
         /\ e.val % 2 = 0
         /\ e.val >= 0
         /\ e.val + 1 < cols
         /\ \A q \in 1..num_pins(c) :
              (q # p /\ C26_Entry(c, mode, q).ok) => C26_Entry(c, mode, q).val # e.val
         /\ \A row \in 0..(num_rows(c) - 1) : \A neg_off \in {0, 1} :
              /\ row * cols + e.val + neg_off < num_rows(c) * cols
              /\ (row * cols + e.val + neg_off) \div cols = row

\* set_and on the fuse state g, for an input that has a column: it returns
\* Ok and the fuse it clears is the one of the row, the column and the
\* negation; no other fuse differs.
C26_SetAnd(g, row, pin_num, negation) ==
  \A r \in {set_and(g, row, pin_num, negation)} :
    /\ r.res.ok
    /\ DOMAIN r.gal.fuses = DOMAIN g.fuses
    /\ \A x \in DOMAIN g.fuses \ {row} : r.gal.fuses[x] = g.fuses[x]
    /\ DOMAIN r.gal.fuses[row] = DOMAIN g.fuses[row]
    /\ \A y \in DOMAIN g.fuses[row] :
         r.gal.fuses[row][y] =
           (g.fuses[row][y] /\ y # pin_to_column(g, pin_num).val + (IF negation THEN 1 ELSE 0))

\* The fuses of two inputs of the row: the same only for the same input.
C26_Apart(g, p, q) ==
  \A n \in BOOLEAN : \A m \in BOOLEAN :
    (pin_to_column(g, p).ok /\ pin_to_column(g, q).ok /\ <<p, n>> # <<q, m>>) =>
      pin_to_column(g, p).val + (IF n THEN 1 ELSE 0) # pin_to_column(g, q).val + (IF m THEN 1 ELSE 0)

\* C26: every table of the chip is as described above; and on the fuse
\* state at hand set_and, for every pin that has a column, in the first
\* and in the last row, clears one fuse of that row, different inputs
\* having different fuses.
C26 ==
  chip \in Chips =>
    /\ \A mode \in C26_Modes(chip) : C26_Table(chip, mode)
    /\ pc = "term" =>
         /\ \A p \in 1..num_pins(chip) : \A q \in 1..num_pins(chip) : C26_Apart(gal, p, q)
         /\ \A p \in {2, 3, OP(chip, 0), OP(chip, 7)} : \A row \in {0, num_rows(chip) - 1} : \A negation \in BOOLEAN :
              pin_to_column(gal, p).ok => C26_SetAnd(gal, row, p, negation)

\* A product of two inputs was written into a slot of a GAL22V10: its row
\* has two fuses cleared.
C26_Witness ==
  /\ pc = "term" /\ chip = "GAL22V10" /\ neqn = 1 /\ err = NoError /\ last.op = "add_term"
  /\ Len(last.term.pins) = 1 /\ Len(last.term.pins[1]) = 2
  /\ Cardinality({ y \in DOMAIN gal.fuses[last.bounds.start_row + last.bounds.row_offset] :
                     ~gal.fuses[last.bounds.start_row + last.bounds.row_offset][y] }) = 2

----------------------------------------------------------------------------
(* Properties of the order of the mode analysis and the terms *)

\* The bits the mode analysis sets.
C27_ModeBits(g) == <<g.syn, g.ac0, g.ac1, g.xor, g.pt>>

\* No term has been written: every fuse of the grid is as GAL::new left it.
C27_Unwritten(g) == g.fuses = GAL_new(g.chip).fuses

\* C27: the mode analysis runs on a fuse grid no term has been written to
\* and leaves the grid as it is; the terms are written with the mode bits
\* it has set, which they leave as they are; on GAL16V8 and GAL20V8 syn
\* and ac0 then hold one of the three modes, and the fuse builder of these
\* two chips never ends in the panic of get_mode.
C27 ==
  /\ [][(pc = "analyse" /\ last'.op = "analyse_mode") =>
          C27_Unwritten(gal) /\ gal'.fuses = gal.fuses]_vars
  /\ [][(pc = "terms" /\ last'.op = "write_terms") =>
          /\ C27_ModeBits(gal') = C27_ModeBits(gal)
          /\ chip \in V8 => get_mode(gal) \in {"Simple", "Complex", "Registered"}]_vars
  /\ [][gal'.fuses # gal.fuses => (pc = "terms" \/ (pc = "blueprint" /\ C27_Unwritten(gal')))]_vars
  /\ [][C27_ModeBits(gal') # C27_ModeBits(gal) =>
          (pc = "analyse" \/ (pc = "blueprint" /\ C27_ModeBits(gal') = C27_ModeBits(GAL_new(chip))))]_vars
  /\ [](chip \in V8 => err.code # "Panic")

\* The terms of a GAL22V10 were written, one of which reads the pin of an
\* OLMC without an output: the S1 bit of that OLMC was set before the term
\* was written.
C27_Witness ==
  /\ OlmcsWritten /\ chip = "GAL22V10"
  /\ \E n \in DOMAIN olmcs :
       /\ ~IsSome(olmcs[n].output) /\ olmcs[n].feedback /\ gal.ac1[9 - n]
       /\ \E m \in DOMAIN olmcs : \E t \in C19_Terms(olmcs[m]) : OP(chip, n) \in C19_Pins(t)
  /\ ~C27_Unwritten(gal)

----------------------------------------------------------------------------
(* Properties of the rows of the OLMCs *)

\* The rows of OLMC i of the chip.
C28_Range(c, i) ==
  start_row_for_olmc(c, i)..(start_row_for_olmc(c, i) + num_rows_for_olmc(c, i) - 1)

\* The rows of all the OLMCs of the chip.
C28_Covered(c) == UNION { C28_Range(c, i) : i \in 0..(num_olmcs(c) - 1) }

\* C28: the row ranges of the OLMCs of the chip are non-empty, pairwise
\* disjoint and inside the fuse grid; Chip::get_bounds gives each OLMC its
\* range; together the ranges are the rows 1..130 on GAL22V10 and every
\* row of the grid on the other chips.
C28 ==
  chip \in Chips =>
    /\ \A i \in 0..(num_olmcs(chip) - 1) :
         /\ C28_Range(chip, i) # {}
         /\ C28_Range(chip, i) \subseteq 0..(num_rows(chip) - 1)
         /\ C24_Rows(chip_get_bounds(chip, i)) = C28_Range(chip, i)
         /\ \A j \in 0..(num_olmcs(chip) - 1) : i # j => C28_Range(chip, i) \cap C28_Range(chip, j) = {}
    /\ C28_Covered(chip) = (IF chip = "GAL22V10" THEN 1..130 ELSE 0..(num_rows(chip) - 1))
    /\ chip = "GAL22V10" => (0..(num_rows(chip) - 1)) \ C28_Covered(chip) = {0, 131}

\* The second pass has run over the OLMCs of a GAL22V10 without any
\* equation: clearing the rows of each OLMC has left the fuses of the rows
\* 0 and 131 set, and no other.
C28_Witness ==
  /\ OlmcsWritten /\ chip = "GAL22V10" /\ neqn = 0
  /\ \A row \in 1..130 : RowClear(gal, row)
  /\ \A row \in {0, 131} : \A col \in 0..(num_cols(chip) - 1) : gal.fuses[row][col]

----------------------------------------------------------------------------
(* Properties of the fuses add_term leaves alone *)

\* The step just taken called add_term or add_term_opt.
C29_Called == pc = "term" /\ last'.op \in {"add_term", "add_term_opt"}

\* The bits of the fuse state that are no fuses of the grid.
C29_Bits(g) == <<g.chip, g.xor, g.ac1, g.sig, g.pt, g.syn, g.ac0>>

\* The inputs of the term up to the j-th of product k, in the order they
\* are written, all have a column.
C29_UsableUpTo(g, term, k, j) ==
  /\ \A i \in 1..(k - 1) : \A h \in 1..Len(term.pins[i]) : pin_to_column(g, term.pins[i][h].pin).ok
  /\ \A h \in 1..j : pin_to_column(g, term.pins[k][h].pin).ok

\* The fuses of the inputs add_term reached before it returned are false.
C29_Kept(g, new, term, b) ==
  \A k \in 1..Len(term.pins) : \A j \in 1..Len(term.pins[k]) :
    (k <= Capacity(b) /\ C29_UsableUpTo(g, term, k, j)) =>
      ~new.fuses[b.start_row + b.row_offset + k - 1][C18_Column(g, term.pins[k][j])]

\* C29: a call of add_term, failed or not, leaves the rows outside
\* [start_row + row_offset, start_row + max_row) as they were, sets no
\* fuse that was false, and leaves xor, ac1, sig, pt, syn and ac0 as they
\* were; the fuses of the inputs it wrote before it failed stay false.
C29 ==
  [][C29_Called =>
       \A b \in {last'.bounds} :
         /\ DOMAIN gal'.fuses = DOMAIN gal.fuses
         /\ \A r \in DOMAIN gal.fuses :
              IF r \in C24_Rows(b)
              THEN \A y \in DOMAIN gal.fuses[r] : gal'.fuses[r][y] => gal.fuses[r][y]
              ELSE gal'.fuses[r] = gal.fuses[r]
         /\ C29_Bits(gal') = C29_Bits(gal)
         /\ IsSome(last'.term) => C29_Kept(gal, gal', last'.term, b)]_vars

\* add_term failed at the second input of a product, a pin that is no
\* input in the mode of the chip: the fuse of the first input is false.
C29_Witness ==
  /\ pc = "error" /\ last.op = "add_term" /\ neqn = 1
  /\ err.code \notin {"None", "TooManyProducts", "MoreThanOneProduct"}
  /\ Len(last.term.pins) = 1 /\ Len(last.term.pins[1]) = 2
  /\ pin_to_column(gal, last.term.pins[1][1].pin).ok
  /\ ~gal.fuses[last.bounds.start_row + last.bounds.row_offset][C18_Column(gal, last.term.pins[1][1])]

----------------------------------------------------------------------------
(* The equations of a file added to a blueprint in any order: parser.eqns
   holds the equations, each with its line, and last.done the positions
   of those that were added, in the order they were added in. *)

\* The number of equations of a file.
MaxOrder == 3

\* The loop of Blueprint::from over eqns, from the k-th equation on, r
\* being the blueprint so far and the Result of the last add_equation.
RECURSIVE from_eqns(_, _, _, _)
from_eqns(c, r, eqns, k) ==
  IF ~r.res.ok \/ k > Len(eqns) THEN r
  ELSE from_eqns(c, add_equation(c, r.olmcs, r.ar, r.sp, eqns[k]), eqns, k + 1)

\* Blueprint::from: the blueprint of the equations and the Result.
Blueprint_from(c, eqns) ==
  from_eqns(c, [olmcs |-> Blueprint_new(c), ar |-> None, sp |-> None, res |-> Ok(0)], eqns, 1)

\* The files: up to MaxOrder equations of the menu, the k-th on line k + 4.
OrderMenu(c) ==
  UNION { { [k \in 1..n |-> Equation(k + 4, f[k].lhs, f[k].rhs, f[k].is_or)] : f \in [1..n -> EqnMenu(c)] } :
          n \in 0..MaxOrder }

InitOrder ==
  /\ chip \in Chips
  /\ pc = "order"
  /\ \E eqns \in OrderMenu(chip) : parser = [NoParser EXCEPT !.eqns = eqns]
  /\ olmcs = Blueprint_new(chip)
  /\ ar = None
  /\ sp = None
  /\ neqn = 0
  /\ err = NoError
  /\ gal = NoGAL
  /\ last = [op |-> "new", done |-> <<>>]
  /\ fuse_builder = FuseBuilder_new
  /\ wpos = 0
  /\ config = NoConfig
  /\ jedec = <<>>
  /\ file = <<>>
  /\ builder = NoBuilder

\* blueprint.add_equation(eqn) for an equation of the file not added yet.
AddInAnyOrder ==
  /\ pc = "order"
  /\ \E k \in (1..Len(parser.eqns)) \ { last.done[i] : i \in 1..Len(last.done) } :
       \E r \in {add_equation(chip, olmcs, ar, sp, parser.eqns[k])} :
         /\ olmcs' = r.olmcs
         /\ ar' = r.ar
         /\ sp' = r.sp
         /\ err' = IF r.res.ok THEN NoError ELSE at_line(parser.eqns[k].line_num, r.res)
         /\ pc' = IF r.res.ok THEN "order" ELSE "error"
         /\ last' = [op |-> "add_equation", done |-> Append(last.done, k)]
  /\ neqn' = neqn + 1
  /\ UNCHANGED <<config, jedec, file, parser, chip, gal, fuse_builder, wpos, builder>>

\* Every equation of the file was added: the blueprint is returned.
OrderEnd ==
  /\ pc = "order"
  /\ Len(last.done) = Len(parser.eqns)
  /\ pc' = "ordered"
  /\ UNCHANGED <<config, jedec, file, parser, chip, olmcs, ar, sp, neqn, err, gal, last, fuse_builder, wpos, builder>>

NextOrder == AddInAnyOrder \/ OrderEnd

SpecOrder == InitOrder /\ [][NextOrder]_vars

----------------------------------------------------------------------------
(* interop.rs: the functions exported to a C caller that write the
   configuration bits and the signature of a Jedec.  Nothing in main.rs,
   do_stuff or do_it_all calls them, so they are no steps of the pipeline:
   they are applied here, one call after the other, to the Jedec that
   new_jedec returns. *)

\* The number of calls.
MaxSets == 2

\* Jedec::new of jedec.rs: one xor bit for each OLMC, 8 ac1 bits and 10 s1
\* bits whatever the chip.
Jedec_new(c) ==
  [chip |-> c,
   fuses |-> GAL_new(c).fuses,
   xor |-> VecOf(num_olmcs(c), FALSE),
   sig |-> VecOf(64, FALSE),
   ac1 |-> VecOf(8, FALSE),
   pt |-> VecOf(64, FALSE),
   syn |-> FALSE,
   ac0 |-> FALSE,
   s1 |-> VecOf(10, FALSE)]

\* jedec.ac1[i] = ac0 != 0; an index past the end of the Vec panics.
set_ac1(j, i, v) ==
  IF i \in DOMAIN j.ac1 THEN [jedec |-> [j EXCEPT !.ac1[i] = (v # 0)], err |-> NoError]
  ELSE [jedec |-> j, err |-> Panic]

\* jedec.s1[i] = s1 != 0
set_s1(j, i, v) ==
  IF i \in DOMAIN j.s1 THEN [jedec |-> [j EXCEPT !.s1[i] = (v # 0)], err |-> NoError]
  ELSE [jedec |-> j, err |-> Panic]

\* jedec.pt[i] = pt != 0
set_pt(j, i, v) ==
  IF i \in DOMAIN j.pt THEN [jedec |-> [j EXCEPT !.pt[i] = (v # 0)], err |-> NoError]
  ELSE [jedec |-> j, err |-> Panic]

\* jedec.xor[i] = x != 0
set_xor(j, i, v) ==
  IF i \in DOMAIN j.xor THEN [jedec |-> [j EXCEPT !.xor[i] = (v # 0)], err |-> NoError]
  ELSE [jedec |-> j, err |-> Panic]

\* set_sig of interop.rs: the 64 bits are cleared, then written from the
\* first eight bytes of the string, as do_stuff writes them.
set_sig_c(j, s) == set_sig(j, s)

\* The indices the setters are called with: the first, the last of each
\* Vec and the one after it.
SetIndices == {0, 7, 8, 9, 10, 63, 64}

\* The values they are called with, as the i32 of the C side.
SetValues == {0, 1, 2}

InitInterop ==
  /\ chip \in Chips
  /\ pc = "interop"
  /\ gal = Jedec_new(chip)
  /\ olmcs = Blueprint_new(chip)
  /\ ar = None
  /\ sp = None
  /\ neqn = 0
  /\ err = NoError
  /\ last = NoLast
  /\ fuse_builder = FuseBuilder_new
  /\ wpos = 0
  /\ config = NoConfig
  /\ jedec = <<>>
  /\ file = <<>>
  /\ parser = NoParser
  /\ builder = NoBuilder

\* A call of a setter has returned r, or has panicked.
SetDone(r, op, i, v) ==
  /\ pc = "interop"
  /\ neqn < MaxSets
  /\ gal' = r.jedec
  /\ err' = r.err
  /\ pc' = IF r.err # NoError THEN "error" ELSE "interop"
  /\ neqn' = neqn + 1
  /\ last' = [op |-> op, i |-> i, v |-> v]
  /\ UNCHANGED <<config, jedec, file, parser, chip, olmcs, ar, sp, fuse_builder, wpos, builder>>

SetAc1 == \E i \in SetIndices : \E v \in SetValues : SetDone(set_ac1(gal, i, v), "set_ac1", i, v)

SetS1 == \E i \in SetIndices : \E v \in SetValues : SetDone(set_s1(gal, i, v), "set_s1", i, v)

SetPt == \E i \in SetIndices : \E v \in SetValues : SetDone(set_pt(gal, i, v), "set_pt", i, v)

SetXor == \E i \in SetIndices : \E v \in SetValues : SetDone(set_xor(gal, i, v), "set_xor", i, v)

SetSig == \E s \in SigMenu : SetDone([jedec |-> set_sig_c(gal, s), err |-> NoError], "set_sig", 0, Len(s))

NextInterop == SetAc1 \/ SetS1 \/ SetPt \/ SetXor \/ SetSig

SpecInterop == InitInterop /\ [][NextInterop]_vars

\* Each setter writes the one bit it is called for, and set_sig the
\* signature; every other bit of the Jedec stays as it was.
InteropWritesOneBit ==
  [][(pc = "interop" /\ pc' = "interop") =>
       /\ gal'.fuses = gal.fuses /\ gal'.syn = gal.syn /\ gal'.ac0 = gal.ac0
       /\ last'.op = "set_ac1" =>
            gal' = [gal EXCEPT !.ac1[last'.i] = (last'.v # 0)]
       /\ last'.op = "set_s1" =>
            gal' = [gal EXCEPT !.s1[last'.i] = (last'.v # 0)]
       /\ last'.op = "set_pt" =>
            gal' = [gal EXCEPT !.pt[last'.i] = (last'.v # 0)]
       /\ last'.op = "set_xor" =>
            gal' = [gal EXCEPT !.xor[last'.i] = (last'.v # 0)]
       /\ last'.op = "set_sig" =>
            \A f \in {"chip", "fuses", "xor", "ac1", "pt", "syn", "ac0", "s1"} : gal'[f] = gal[f]]_vars

----------------------------------------------------------------------------
(* Properties of the order of the equations *)

\* C30: the equations of a file added in any order: when all of them are
\* accepted, Blueprint::from accepts them in the order of the file and
\* returns the same OLMCs (output, tri_con, clock, arst, aprst, active and
\* feedback of each), the same AR and the same SP; when one of them is
\* rejected, Blueprint::from rejects the file.
C30 ==
  /\ pc = "ordered" =>
       \A ref \in {Blueprint_from(chip, parser.eqns)} :
         /\ ref.res.ok
         /\ ref.olmcs = olmcs
         /\ ref.ar = ar
         /\ ref.sp = sp
  /\ (pc = "error" /\ last.op = "add_equation" /\ "done" \in DOMAIN last) =>
       ~Blueprint_from(chip, parser.eqns).res.ok

\* Three equations were accepted with the last of the file added first:
\* they give one OLMC its output and its enable term, and another OLMC
\* provides feedback.
C30_Witness ==
  /\ pc = "ordered" /\ Len(parser.eqns) = 3 /\ last.done[1] = 3 /\ last.done[2] = 1
  /\ \E n \in DOMAIN olmcs : IsSome(olmcs[n].output) /\ IsSome(olmcs[n].tri_con)
  /\ \E n \in DOMAIN olmcs : olmcs[n].feedback

----------------------------------------------------------------------------
(* make_jedec: the fuse part of the JEDEC file, one FuseBuilder call per step *)

\* The fuse builder's result for the blueprint of the given output mode.
Built(c, m) ==
  write_terms(analyse_mode(GAL_new(c), TermBlueprint(c, m)).gal, analyse_mode(GAL_new(c), TermBlueprint(c, m)).olmcs,
              first_pass(c, mark_input(c, mark_input(c, BuilderOLMCs, Pin(OP(c, 0), FALSE)), Pin(OP(c, 7), FALSE)),
                         << Equation(5, LPin(OP(c, 1), FALSE, CASE m = "Combinatorial" -> "None" [] m = "Tristate" -> "T" [] m = "Registered" -> "R"),
                                     <<Pin(2, FALSE)>>, <<FALSE>>) >>, 1).olmcs)

\* The rows of OLMC 0, and no row.
JedecSlots(c) ==
  { [start_row |-> start_row_for_olmc(c, 0), max_row |-> n, row_offset |-> 0] : n \in {0, num_rows_for_olmc(c, 0)} }

\* The GALs written out: the fresh GAL, with all fuses set or with the rows
\* of OLMC 0 cleared, the XOR bits all set or all clear and any value of
\* syn and ac0; and the GALs the fuse builder makes of the blueprints of
\* TermBlueprint.
JedecMenu(c) ==
  { [clear_rows(GAL_new(c), b).gal EXCEPT !.xor = VecOf(num_olmcs(c), x), !.syn = s, !.ac0 = a] :
      b \in JedecSlots(c), x \in BOOLEAN, s \in BOOLEAN, a \in BOOLEAN }
  \cup { r.gal : r \in { q \in { Built(c, m) : m \in {"Combinatorial", "Tristate", "Registered"} } : q.err = NoError } }

InitJedec ==
  /\ chip \in Chips
  /\ pc = "rows"
  /\ gal \in JedecMenu(chip)
  /\ olmcs = Blueprint_new(chip)
  /\ ar = None
  /\ sp = None
  /\ neqn = 0
  /\ err = NoError
  /\ last = NoLast
  /\ fuse_builder = FuseBuilder_new
  /\ wpos = 0
  /\ config \in [jedec_sec_bit : BOOLEAN]
  /\ jedec = <<>>
  /\ file = <<>>
  /\ parser = NoParser
  /\ builder = NoBuilder

\* One row of the fuse grid: written if it has a set bit, skipped if not.
JedecRow ==
  /\ pc = "rows"
  /\ fuse_builder' = jedec_row(fuse_builder, gal.fuses[wpos])
  /\ wpos' = wpos + 1
  /\ pc' = IF wpos + 1 = num_rows(chip) THEN "xor" ELSE "rows"
  /\ last' = [op |-> "row"]
  /\ UNCHANGED <<config, jedec, file, parser, chip, olmcs, ar, sp, neqn, err, gal, builder>>

JedecXor ==
  /\ pc = "xor"
  /\ fuse_builder' = jedec_xor(fuse_builder, gal)
  /\ pc' = "sig"
  /\ last' = [op |-> "xor"]
  /\ UNCHANGED <<config, jedec, file, parser, chip, olmcs, ar, sp, neqn, err, gal, wpos, builder>>

JedecSig ==
  /\ pc = "sig"
  /\ fuse_builder' = FuseBuilder_add_iter(fuse_builder, gal.sig)
  /\ pc' = IF chip \in V8 THEN "ac1" ELSE "checksum"
  /\ last' = [op |-> "sig"]
  /\ UNCHANGED <<config, jedec, file, parser, chip, olmcs, ar, sp, neqn, err, gal, wpos, builder>>

JedecAc1 ==
  /\ pc = "ac1"
  /\ fuse_builder' = FuseBuilder_add_iter(fuse_builder, gal.ac1)
  /\ pc' = "pt"
  /\ last' = [op |-> "ac1"]
  /\ UNCHANGED <<config, jedec, file, parser, chip, olmcs, ar, sp, neqn, err, gal, wpos, builder>>

JedecPt ==
  /\ pc = "pt"
  /\ fuse_builder' = FuseBuilder_add_iter(fuse_builder, gal.pt)
  /\ pc' = "syn"
  /\ last' = [op |-> "pt"]
  /\ UNCHANGED <<config, jedec, file, parser, chip, olmcs, ar, sp, neqn, err, gal, wpos, builder>>

JedecSyn ==
  /\ pc = "syn"
  /\ fuse_builder' = FuseBuilder_add_iter(fuse_builder, VecOf(1, gal.syn))
  /\ pc' = "ac0"
  /\ last' = [op |-> "syn"]
  /\ UNCHANGED <<config, jedec, file, parser, chip, olmcs, ar, sp, neqn, err, gal, wpos, builder>>

JedecAc0 ==
  /\ pc = "ac0"
  /\ fuse_builder' = FuseBuilder_add_iter(fuse_builder, VecOf(1, gal.ac0))
  /\ pc' = "checksum"
  /\ last' = [op |-> "ac0"]
  /\ UNCHANGED <<config, jedec, file, parser, chip, olmcs, ar, sp, neqn, err, gal, wpos, builder>>

\* FuseBuilder::checksum: the value printed after *C, or the panic.
JedecChecksum ==
  /\ pc = "checksum"
  /\ \E o \in CheckSummer_get(fuse_builder.checksum) :
       /\ pc' = IF o.panic THEN "panic" ELSE "written"
       /\ last' = [op |-> "checksum", value |-> o.value]
  /\ UNCHANGED <<config, jedec, file, parser, chip, olmcs, ar, sp, neqn, err, gal, fuse_builder, wpos, builder>>

\* The rest of make_jedec: the end of the transmission and the file
\* checksum.
JedecFile ==
  /\ pc = "written"
  /\ \E buf \in {jedec_buf(config, chip, fuse_builder, last.value)} :
       \E data \in {as_bytes(buf)} :
         \E checksum \in {file_checksum(data)} :
           jedec' = buf \o file_checksum_text(checksum)
  /\ pc' = "file"
  /\ UNCHANGED <<config, file, parser, chip, olmcs, ar, sp, neqn, err, gal, last, fuse_builder, wpos, builder>>

NextJedec ==
  JedecRow \/ JedecXor \/ JedecSig \/ JedecAc1 \/ JedecPt \/ JedecSyn \/ JedecAc0 \/ JedecChecksum \/ JedecFile

SpecJedec == InitJedec /\ [][NextJedec]_vars

----------------------------------------------------------------------------
(* Properties of the fuse checksum *)

\* Two vectors one after the other.
Concat(a, b) ==
  [i \in 0..(Cardinality(DOMAIN a) + Cardinality(DOMAIN b) - 1) |->
     IF i < Cardinality(DOMAIN a) THEN a[i] ELSE b[i - Cardinality(DOMAIN a)]]

\* Every bit make_jedec processes, written or skipped, in order.
BitStream(g) ==
  LET grid == [i \in 0..(logic_size(g.chip) - 1) |-> Fuse(g, i)]
      xors == IF g.chip = "GAL22V10" THEN interleave(g.xor, g.ac1) ELSE g.xor
      v8 == Concat(Concat(g.ac1, g.pt), Concat(VecOf(1, g.syn), VecOf(1, g.ac0)))
  IN IF g.chip \in V8 THEN Concat(Concat(grid, xors), Concat(g.sig, v8))
     ELSE Concat(Concat(grid, xors), g.sig)

\* The value of bit i of the stream at its place in its byte, the first bit
\* of a byte being the least significant.
BitValue(bits, i) == IF i \in DOMAIN bits /\ bits[i] THEN 2 ^ (i % 8) ELSE 0

\* The k-th byte of the stream; the last one may be partial.
ByteValue(bits, k) ==
  BitValue(bits, 8 * k) + BitValue(bits, 8 * k + 1) + BitValue(bits, 8 * k + 2) + BitValue(bits, 8 * k + 3)
  + BitValue(bits, 8 * k + 4) + BitValue(bits, 8 * k + 5) + BitValue(bits, 8 * k + 6) + BitValue(bits, 8 * k + 7)

\* The sum of the bytes lo..hi of the stream.
RECURSIVE ByteRange(_, _, _)
ByteRange(bits, lo, hi) ==
  IF lo > hi THEN 0
  ELSE IF lo = hi THEN ByteValue(bits, lo)
  ELSE ByteRange(bits, lo, (lo + hi) \div 2) + ByteRange(bits, (lo + hi) \div 2 + 1, hi)

\* The sum of all bytes of the stream, a trailing partial byte included.
ByteSum(bits) == ByteRange(bits, 0, (Cardinality(DOMAIN bits) - 1) \div 8)

\* C10: once make_jedec has processed every bit, FuseBuilder::checksum
\* prints the 16-bit wrapping sum of the bytes of the bit stream (packed
\* eight to a byte, first bit least significant, trailing partial byte
\* included), and computing it neither overflows nor aborts.
C10 ==
  pc \in {"written", "panic"} =>
    /\ pc = "written"
    /\ fuse_builder.checksum.sum + fuse_builder.checksum.byte <= 65535
    /\ last.value = ByteSum(BitStream(gal)) % 65536

\* The checksum of a GAL16V8 whose full bytes sum to 0xffff and whose
\* stream ends in a partial byte of value 1 has been asked for, and the
\* addition has panicked.
C10_Witness ==
  /\ pc = "panic" /\ chip = "GAL16V8"
  /\ fuse_builder.idx = total_size(chip)
  /\ fuse_builder.checksum = [bit_num |-> 2, byte |-> 1, sum |-> 65535]

----------------------------------------------------------------------------
(* parse and Blueprint::from on a file: the chip, the signature, the two
   pin rows, the equations one logical line at a time, then the blueprint
   one equation at a time and the fuse builder. *)

\* The number of equation lines of a file.
MaxLines == 3

\* The chips of the files.
ParseChips == {"GAL16V8", "GAL22V10"}

\* A line made of words separated by single spaces.
RECURSIVE Join(_)
Join(ws) ==
  IF Len(ws) = 0 THEN <<>>
  ELSE IF Len(ws) = 1 THEN ws[1]
  ELSE ws[1] \o <<" ">> \o Join(Tail(ws))

\* The name the files give to pin p: VCC, GND, or a letter.
PinWord(c, p) ==
  IF p = num_pins(c) THEN VCC_NAME
  ELSE IF p = num_pins(c) \div 2 THEN GND_NAME
  ELSE IF p < num_pins(c) \div 2 THEN <<UpperCase[p]>>
  ELSE <<UpperCase[p - 1]>>

\* The words of a well-formed pin row.
GoodRow(c, row_num) ==
  [k \in 1..(num_pins(c) \div 2) |-> PinWord(c, row_num * (num_pins(c) \div 2) + k)]

\* The words put in place of a pin's name.
RowWords ==
  {VCC_NAME, GND_NAME, NC_NAME, AR_NAME, SP_NAME, <<"A">>, <<"/", "A">>, <<"/">> \o VCC_NAME, <<"/">> \o GND_NAME}

\* The pin rows: the well-formed one, the same with one name replaced, and
\* rows that are short, hold a suffix, an operator or a character that is
\* no token.
RowMenu(c, row_num) ==
  {GoodRow(c, row_num)}
  \cup { [GoodRow(c, row_num) EXCEPT ![k] = w] : k \in 1..(num_pins(c) \div 2), w \in RowWords }
  \cup { SubSeq(GoodRow(c, row_num), 1, num_pins(c) \div 2 - 1),
         [GoodRow(c, row_num) EXCEPT ![2] = <<"B", ".", "T">>],
         [GoodRow(c, row_num) EXCEPT ![2] = <<"=">>],
         [GoodRow(c, row_num) EXCEPT ![2] = <<"!">>] }

\* The pin lines of a file: at most one row differs from the well-formed
\* one, and a comment line may stand before the second row; or a row is
\* missing.
PinRowsMenu(c) ==
  { <<Join(r), Join(GoodRow(c, 1))>> : r \in RowMenu(c, 0) }
  \cup { <<Join(GoodRow(c, 0)), <<";", "r", "o", "w">>, Join(r)>> : r \in RowMenu(c, 1) }
  \cup { <<Join(GoodRow(c, 0))>> }

\* The name of the pin of OLMC k.
OutWord(c, k) == PinWord(c, OP(c, k))

\* The lines after the pin rows: equations, pieces of equations that
\* continue on the next line or continue the previous one, lines with
\* faults, a comment and the DESCRIPTION line, after which nothing is
\* read.
EqLines(c) ==
  { Join(<<OutWord(c, 0), <<"=">>, <<"A">>>>),
    Join(<<OutWord(c, 0), <<"=">>, <<"A">>, <<"+">>>>),
    <<"\t", "*", "\r", "B">>,
    <<"/", "B">>,
    Join(<<<<"=">>, <<"A">>>>),
    <<"B", ".", "T">>,
    Join(<<OutWord(c, 1), <<"=">>, OutWord(c, 0)>>),
    Join(<<OutWord(c, 0), <<"=">>, <<"A">>, <<"!">>>>),
    Join(<<OutWord(c, 0), <<"=">>>>),
    <<"\t", ";", " ", "c">>,
    DESCRIPTION,
    Join(<<OutWord(c, 0), <<"=">>, <<"A">>, <<"+">>, <<"B">>, <<"+">>, <<"C">>, <<"+">>, <<"D">>, <<"+">>, <<"E">>>>),
    Join(<<<<"+">>, <<"F">>, <<"+">>, <<"G">>, <<"+">>, <<"H">>, <<"+">>, <<"I">>, <<"#">>, <<"/", "A">>>>) }

\* The equation lines of a file.
EqLinesMenu(c) == UNION { [1..n -> EqLines(c)] : n \in 0..MaxLines }

SignatureLine == <<"S", "i", "g", "n", "a", "t", "u", "r", "e", "1">>

\* The files: a chip, a signature, pin rows and equation lines, with
\* faults in the pin rows or in the equation lines; and files that end
\* early or name no chip.
FileMenu(chips) ==
  UNION { { <<chip_name(c), SignatureLine>> \o rows \o <<Join(<<OutWord(c, 0), <<"=">>, <<"A">>>>)>> : rows \in PinRowsMenu(c) }
          \cup { <<chip_name(c), SignatureLine, Join(GoodRow(c, 0)), Join(GoodRow(c, 1))>> \o eqs :
                   eqs \in EqLinesMenu(c) }
          \cup { <<chip_name(c)>>, <<<<" ">> \o chip_name(c) \o <<" ">>, <<"S">>>>, <<chip_name(c) \o <<"X">>, SignatureLine>> } :
          c \in chips }
  \cup { <<>> }

InitParse ==
  /\ file \in FileMenu(ParseChips)
  /\ pc = "parse_chip"
  /\ chip = "NoChip"
  /\ parser = NoParser
  /\ olmcs = <<>>
  /\ ar = None
  /\ sp = None
  /\ neqn = 0
  /\ err = NoError
  /\ gal = NoGAL
  /\ last = NoLast
  /\ fuse_builder = FuseBuilder_new
  /\ wpos = 0
  /\ config = NoConfig
  /\ jedec = <<>>
  /\ builder = NoBuilder

\* parse_core: parse_chip
ParseChip ==
  /\ pc = "parse_chip"
  /\ \E r \in {parse_chip(file)} :
       /\ chip' = IF Failed(r) THEN chip ELSE r.val
       /\ err' = IF Failed(r) THEN map_err(file, r.err) ELSE NoError
       /\ pc' = IF Failed(r) THEN "error" ELSE "parse_signature"
  /\ last' = [op |-> "parse_chip"]
  /\ UNCHANGED <<config, jedec, file, parser, olmcs, ar, sp, neqn, gal, fuse_builder, wpos, builder>>

\* parse_core: parse_signature, and the iterator over the lines that
\* follow.
ParseSignature ==
  /\ pc = "parse_signature"
  /\ \E r \in {parse_signature(file)} :
       /\ parser' = IF Failed(r) THEN parser ELSE [parser EXCEPT !.sig = r.val, !.lines = line_iter(file), !.pos = 1]
       /\ err' = IF Failed(r) THEN map_err(file, r.err) ELSE NoError
       /\ pc' = IF Failed(r) THEN "error" ELSE "parse_pins"
  /\ last' = [op |-> "parse_signature"]
  /\ UNCHANGED <<config, jedec, file, chip, olmcs, ar, sp, neqn, gal, fuse_builder, wpos, builder>>

\* parse_core: parse_pins for row 0, then for row 1.
ParsePins ==
  /\ pc = "parse_pins"
  /\ \E r \in {parse_pins(parser.pin_map, chip, parser.row, parser.lines, parser.pos)} :
       /\ parser' = IF Failed(r) THEN parser
                    ELSE [parser EXCEPT !.pins = @ \o r.val.pins, !.pin_map = r.val.pin_map, !.row = @ + 1, !.pos = @ + 1]
       /\ err' = IF Failed(r) THEN map_err(file, r.err) ELSE NoError
       /\ pc' = IF Failed(r) THEN "error" ELSE IF parser.row = 1 THEN "parse_equations" ELSE "parse_pins"
  /\ last' = [op |-> "parse_pins", row_num |-> parser.row]
  /\ UNCHANGED <<config, jedec, file, chip, olmcs, ar, sp, neqn, gal, fuse_builder, wpos, builder>>

\* One round of the loop of parse_core over the tokenised lines.
ParseEquation ==
  /\ pc = "parse_equations"
  /\ parser.pos <= Len(parser.lines)
  /\ \E r \in {next_equation(chip, parser.pin_map, parser.lines, parser.pos)} :
       /\ parser' = IF Failed(r.res) THEN parser ELSE [parser EXCEPT !.eqns = Append(@, r.res.val), !.pos = r.pos]
       /\ err' = IF Failed(r.res) THEN map_err(file, r.res.err) ELSE NoError
       /\ pc' = IF Failed(r.res) THEN "error" ELSE "parse_equations"
       /\ last' = [op |-> "parse_equation", first |-> parser.pos, next |-> r.pos]
  /\ UNCHANGED <<config, jedec, file, chip, olmcs, ar, sp, neqn, gal, fuse_builder, wpos, builder>>

\* The lines have run out: parse_core makes the pin names and returns the
\* Content.
ParseEnd ==
  /\ pc = "parse_equations"
  /\ parser.pos > Len(parser.lines)
  /\ parser' = [parser EXCEPT !.pin_names = [k \in 1..Len(parser.pins) |->
                                               IF parser.pins[k].neg THEN <<"/">> \o parser.pins[k].name
                                               ELSE parser.pins[k].name]]
  /\ pc' = "content"
  /\ last' = [op |-> "parse"]
  /\ UNCHANGED <<config, jedec, file, chip, olmcs, ar, sp, neqn, err, gal, fuse_builder, wpos, builder>>

\* Blueprint::from: Blueprint::new
FromNew ==
  /\ pc = "content"
  /\ olmcs' = Blueprint_new(chip)
  /\ ar' = None
  /\ sp' = None
  /\ neqn' = 0
  /\ pc' = "from"
  /\ last' = [op |-> "new"]
  /\ UNCHANGED <<config, jedec, file, parser, chip, err, gal, fuse_builder, wpos, builder>>

\* Blueprint::from: one round of the loop over content.eqns.
FromEquation ==
  /\ pc = "from"
  /\ neqn < Len(parser.eqns)
  /\ \E r \in {add_equation(chip, olmcs, ar, sp, parser.eqns[neqn + 1])} :
       /\ olmcs' = r.olmcs
       /\ ar' = r.ar
       /\ sp' = r.sp
       /\ err' = IF r.res.ok THEN NoError ELSE at_line(parser.eqns[neqn + 1].line_num, r.res)
       /\ pc' = IF r.res.ok THEN "from" ELSE "error"
       /\ last' = [op |-> "add_equation", eqn |-> parser.eqns[neqn + 1], res |-> r.res]
  /\ neqn' = neqn + 1
  /\ UNCHANGED <<config, jedec, file, parser, chip, gal, fuse_builder, wpos, builder>>

\* Blueprint::from: the loop is over and the blueprint is returned.
FromEnd ==
  /\ pc = "from"
  /\ neqn = Len(parser.eqns)
  /\ pc' = "blueprint"
  /\ last' = [op |-> "from"]
  /\ UNCHANGED <<config, jedec, file, parser, chip, olmcs, ar, sp, neqn, err, gal, fuse_builder, wpos, builder>>

NextParse ==
  ParseChip \/ ParseSignature \/ ParsePins \/ ParseEquation \/ ParseEnd \/ FromNew \/ FromEquation \/ FromEnd
  \/ BuildStart \/ RegisterOutput \/ AnalyseMode \/ WriteTerms

SpecParse == InitParse /\ [][NextParse]_vars

----------------------------------------------------------------------------
(* Properties of the file checksum *)

\* The lowercase hexadecimal digits.
HexLower == {"0", "1", "2", "3", "4", "5", "6", "7", "8", "9", "a", "b", "c", "d", "e", "f"}

\* The number four hexadecimal digits stand for.
HexValue(s) ==
  LET v(c) == IF InTable(Digits, c) THEN IndexIn(Digits, c) - 1 ELSE 9 + IndexIn(LowerCase, c)
  IN 4096 * v(s[1]) + 256 * v(s[2]) + 16 * v(s[3]) + v(s[4])

\* The sum of the bytes of s[lo..hi], as a natural number.
RECURSIVE ByteTotal(_, _, _)
ByteTotal(s, lo, hi) ==
  IF lo > hi THEN 0
  ELSE IF lo = hi THEN byte_of(s[lo])
  ELSE ByteTotal(s, lo, (lo + hi) \div 2) + ByteTotal(s, (lo + hi) \div 2 + 1, hi)

\* C11: the JEDEC file starts with STX and holds one ETX; what follows the
\* ETX is the file checksum, exactly four lowercase hexadecimal digits and
\* a newline, and the digits are the sum of every byte from the STX to the
\* ETX, both included, modulo 2^16.
C11 ==
  pc = "file" =>
    /\ Len(jedec) > 6
    /\ jedec[1] = "STX"
    /\ \A i \in 1..Len(jedec) : (jedec[i] = "ETX") <=> (i = Len(jedec) - 5)
    /\ \A i \in 1..4 : jedec[Len(jedec) - 5 + i] \in HexLower
    /\ jedec[Len(jedec)] = "\n"
    /\ HexValue(SubSeq(jedec, Len(jedec) - 4, Len(jedec) - 1)) = ByteTotal(jedec, 1, Len(jedec) - 5) % 65536

\* The file of a GAL22V10 with the security bit set has been written; its
\* bytes sum to more than 0xffff.
C11_Witness ==
  /\ pc = "file" /\ chip = "GAL22V10" /\ config.jedec_sec_bit
  /\ ByteTotal(jedec, 1, Len(jedec) - 5) > 65535

----------------------------------------------------------------------------
(* Properties of the walk over the fuse grid *)

\* The row holds a set bit.
HasSetBit(row) == \E c \in DOMAIN row : row[c]

\* The rows before row n that hold a set bit.
WrittenRows(g, n) == {r \in 0..(n - 1) : HasSetBit(g.fuses[r])}

\* The fuse grid as one vector of bits.
Grid(g) == [i \in 0..(logic_size(g.chip) - 1) |-> Fuse(g, i)]

\* C12: make_jedec walks the fuse grid one row of num_cols bits at a time.
\* A row with a set bit adds one line to the buffer, with the row's bits
\* and the number of bits processed before it (row index * num_cols) as
\* its offset; a row without a set bit adds no line; either way the offset
\* advances by num_cols.  After the last row the buffer holds one line for
\* each row with a set bit and no other, and the checksum is that of all
\* the bits of the grid, the rows left out included.
C12 ==
  /\ [][(pc = "rows") =>
          /\ fuse_builder.idx = wpos * num_cols(chip)
          /\ fuse_builder'.idx = (wpos + 1) * num_cols(chip)
          /\ HasSetBit(gal.fuses[wpos]) =>
               fuse_builder'.buf = Append(fuse_builder.buf, [idx |-> wpos * num_cols(chip), bits |-> gal.fuses[wpos]])
          /\ ~HasSetBit(gal.fuses[wpos]) => fuse_builder'.buf = fuse_builder.buf]_vars
  /\ [](pc = "xor" =>
          /\ Len(fuse_builder.buf) = Cardinality(WrittenRows(gal, num_rows(chip)))
          /\ {fuse_builder.buf[k].idx : k \in 1..Len(fuse_builder.buf)} = {r * num_cols(chip) : r \in WrittenRows(gal, num_rows(chip))}
          /\ \A k \in 1..(Len(fuse_builder.buf) - 1) : fuse_builder.buf[k].idx < fuse_builder.buf[k + 1].idx
          /\ fuse_builder.idx = logic_size(chip)
          /\ fuse_builder.checksum = [bit_num |-> 0, byte |-> 0, sum |-> ByteSum(Grid(gal)) % 65536])

\* A row without a set bit has been passed over, between rows that were
\* written, on a GAL whose checksum has wrapped.
C12_Witness ==
  /\ pc = "xor"
  /\ \E r \in 1..(num_rows(chip) - 2) :
       /\ ~HasSetBit(gal.fuses[r])
       /\ \E a \in 0..(r - 1) : HasSetBit(gal.fuses[a])
       /\ \E b \in (r + 1)..(num_rows(chip) - 1) : HasSetBit(gal.fuses[b])
  /\ ByteSum(Grid(gal)) > 65535

----------------------------------------------------------------------------
(* Properties of the order and the length of the bit stream *)

\* The number of elements of a vector.
VecLen(v) == Cardinality(DOMAIN v)

\* What make_jedec processes after the fuse grid, piece by piece.
C13_Tail(g) ==
  <<IF g.chip = "GAL22V10"
    THEN [i \in 0..(2 * VecLen(g.xor) - 1) |-> IF i % 2 = 0 THEN g.xor[i \div 2] ELSE g.ac1[(i - 1) \div 2]]
    ELSE g.xor,
    g.sig>>
  \o (IF g.chip \in {"GAL16V8", "GAL20V8"}
      THEN <<g.ac1, g.pt, [i \in {0} |-> g.syn], [i \in {0} |-> g.ac0]>>
      ELSE <<>>)

\* The number of bits of the first k pieces.
RECURSIVE C13_Length(_, _)
C13_Length(tail, k) == IF k = 0 THEN 0 ELSE C13_Length(tail, k - 1) + VecLen(tail[k])

\* The digits of the chip's fuse count.
C13_Count(c) ==
  CASE c = "GAL16V8" -> <<"2", "1", "9", "4">>
    [] c = "GAL20V8" -> <<"2", "7", "0", "6">>
    [] c = "GAL22V10" -> <<"5", "8", "9", "2">>
    [] c = "GAL20RA10" -> <<"3", "2", "7", "4">>

\* The header of the file is shorter than this.
C13_HeaderEnd == 120

\* C13: the bits make_jedec processes are the rows x cols fuse grid, then
\* the XOR bits (on GAL22V10 xor[0], s1[0], xor[1], s1[1], ...), then the
\* 64 signature bits, then on GAL16V8 and GAL20V8 only the ac1 bits, the
\* 64 pt bits, one syn bit and one ac0 bit: every piece after the grid is a
\* line of the buffer at the offset the pieces before it give, the lines
\* before them are rows of the grid, and the number of bits processed is
\* the chip's total_size (2194, 2706, 5892, 3274), which the file prints
\* after *QF.
C13 ==
  /\ pc \in {"checksum", "written", "panic", "file"} =>
       /\ Len(fuse_builder.buf) = Cardinality(WrittenRows(gal, num_rows(chip))) + Len(C13_Tail(gal))
       /\ \A k \in 1..Cardinality(WrittenRows(gal, num_rows(chip))) :
            /\ fuse_builder.buf[k].idx < num_rows(chip) * num_cols(chip)
            /\ fuse_builder.buf[k].idx % num_cols(chip) = 0
            /\ fuse_builder.buf[k].bits = gal.fuses[fuse_builder.buf[k].idx \div num_cols(chip)]
       /\ \A k \in 1..Len(C13_Tail(gal)) :
            /\ fuse_builder.buf[Cardinality(WrittenRows(gal, num_rows(chip))) + k].bits = C13_Tail(gal)[k]
            /\ fuse_builder.buf[Cardinality(WrittenRows(gal, num_rows(chip))) + k].idx
                 = num_rows(chip) * num_cols(chip) + C13_Length(C13_Tail(gal), k - 1)
       /\ VecLen(C13_Tail(gal)[2]) = 64
       /\ chip \in {"GAL16V8", "GAL20V8"} =>
            /\ VecLen(C13_Tail(gal)[3]) = 8
            /\ VecLen(C13_Tail(gal)[4]) = 64
       /\ fuse_builder.idx = num_rows(chip) * num_cols(chip) + C13_Length(C13_Tail(gal), Len(C13_Tail(gal)))
       /\ fuse_builder.idx = total_size(chip)
       /\ fuse_builder.idx = (CASE chip = "GAL16V8" -> 2194 [] chip = "GAL20V8" -> 2706
                                [] chip = "GAL22V10" -> 5892 [] chip = "GAL20RA10" -> 3274)
  /\ pc = "file" =>
       \E i \in 1..C13_HeaderEnd : SubSeq(jedec, i, i + 7) = <<"*", "Q", "F">> \o C13_Count(chip) \o <<"\n">>

\* A GAL22V10 whose XOR bits are set and whose S1 bits are clear has been
\* written out.
C13_Witness ==
  /\ pc = "file" /\ chip = "GAL22V10"
  /\ \A i \in DOMAIN gal.xor : gal.xor[i] /\ ~gal.ac1[i]
  /\ fuse_builder.idx = 5892

----------------------------------------------------------------------------
(* Properties of the pin table *)

\* The pin table (names and negations, pin p at index p) has VCC and GND
\* at the chip's power pins and nowhere else, no name but NC twice, and on
\* GAL22V10 neither AR nor SP.  The table may hold the first row only.
C14_TableOK(c, pins) ==
  /\ \A p \in 1..Len(pins) :
       /\ p = num_pins(c) => pins[p] = [name |-> <<"V", "C", "C">>, neg |-> FALSE]
       /\ p = num_pins(c) \div 2 => pins[p] = [name |-> <<"G", "N", "D">>, neg |-> FALSE]
       /\ p \notin {num_pins(c), num_pins(c) \div 2} => pins[p].name \notin {<<"V", "C", "C">>, <<"G", "N", "D">>}
       /\ c = "GAL22V10" => pins[p].name \notin {<<"A", "R">>, <<"S", "P">>}
  /\ \A p, q \in 1..Len(pins) : (p # q /\ pins[p].name = pins[q].name) => pins[p].name = <<"N", "C">>

\* The line at the parser's position holds as many plain names as a pin
\* row has pins.
C14_IsRow(t) ==
  /\ ~Failed(t)
  /\ Len(t.val) = num_pins(chip) \div 2
  /\ \A k \in 1..(num_pins(chip) \div 2) : t.val[k].kind = "Item" /\ t.val[k].suffix = "None"

\* The pin table with the names and negations of that line added.
C14_Table(t) ==
  parser.pins \o [k \in 1..(num_pins(chip) \div 2) |-> [name |-> t.val[k].name, neg |-> t.val[k].neg]]

\* C14: once the parser has accepted both pin rows, the pin table has pin
\* num_pins named VCC and pin num_pins/2 named GND, both un-negated, no
\* other pin named VCC or GND, every name other than NC at most once, and
\* on GAL22V10 no pin named AR or SP; and a row of num_pins/2 plain names
\* that breaks one of these rules is rejected with InvalidPowerPinName,
\* InvalidPowerPinLocation, RepeatedPinName or ReservedPinName, at the
\* number of that row's line in the file (a row that is not num_pins/2
\* plain names is rejected before, with the error of that fault).
C14 ==
  /\ [](parser.row = 2 => (Len(parser.pins) = num_pins(chip) /\ C14_TableOK(chip, parser.pins)))
  /\ [][(pc = "parse_pins" /\ parser.pos <= Len(parser.lines)) =>
          \A t \in {tokenise(parser.lines[parser.pos])} :
            C14_IsRow(t) =>
              \A table \in {C14_Table(t)} :
                IF C14_TableOK(chip, table)
                THEN /\ pc' # "error"
                     /\ parser'.pins = table
                     /\ parser'.row = parser.row + 1
                ELSE /\ pc' = "error"
                     /\ err'.code \in {"InvalidPowerPinName", "InvalidPowerPinLocation", "RepeatedPinName", "ReservedPinName"}
                     /\ err'.line = parser.lines[parser.pos].num
                     /\ file[err'.line] = parser.lines[parser.pos].text]_vars

\* The second row of a GAL22V10, on line 5 after a comment, has been
\* rejected for a name of the first row.
C14_Witness ==
  /\ pc = "error" /\ chip = "GAL22V10" /\ last.op = "parse_pins" /\ last.row_num = 1
  /\ err.code = "RepeatedPinName" /\ err.line = 5
  /\ parser.row = 1 /\ Len(parser.pins) = 12

----------------------------------------------------------------------------
(* Properties of continuation lines *)

C15_Operators == {"+", "#", "*", "&"}

\* Line k is joined with the line after it: it ends with an operator or
\* the next line starts with one.
C15_Joins(lines, k) ==
  \/ lines[k].text[Len(lines[k].text)] \in C15_Operators
  \/ k < Len(lines) /\ lines[k + 1].text[1] \in C15_Operators

\* The last line of the logical line that starts at line a.
C15_Last(lines, a) ==
  CHOOSE b \in a..Len(lines) :
    /\ \A k \in a..(b - 1) : C15_Joins(lines, k)
    /\ b = Len(lines) \/ ~C15_Joins(lines, b)

\* The number of operators on the lines a..b.
RECURSIVE C15_OpCount(_, _, _)
C15_OpCount(lines, a, b) ==
  IF a > b THEN 0
  ELSE Cardinality({i \in 1..Len(lines[a].text) : lines[a].text[i] \in C15_Operators}) + C15_OpCount(lines, a + 1, b)

\* The numbers of the lines a..b in the file.
C15_Numbers(lines, a, b) == {lines[k].num : k \in a..b}

\* One logical line is read.
C15_Reads == pc = "parse_equations" /\ parser.pos <= Len(parser.lines)

\* The lines joined into an equation are those from the parser's position
\* up to the first that neither ends with an operator nor is followed by a
\* line that starts with one; the equation has the number of the first of
\* them and one input more than they hold operators.
C15_Joined ==
  [][(C15_Reads /\ pc' # "error") =>
       /\ parser'.pos = C15_Last(parser.lines, parser.pos) + 1
       /\ parser'.eqns = Append(parser.eqns, parser'.eqns[Len(parser'.eqns)])
       /\ parser'.eqns[Len(parser'.eqns)].line_num = parser.lines[parser.pos].num
       /\ Len(parser'.eqns[Len(parser'.eqns)].rhs) = C15_OpCount(parser.lines, parser.pos, C15_Last(parser.lines, parser.pos)) + 1]_vars

\* The codes add_equation of the fuse builder raises for an equation.
C15_TermCodes == {code_name(n) : n \in {25, 26, 28, 30}}

\* The first character of the logical line that starts at line pos is an
\* operator or '=': its first token is not a pin name.
C15_NoName(lines, pos) == lines[pos].text[1] \in C15_Operators \cup {"="}

\* The diagnostics the blueprint, register_output and add_equation of the
\* fuse builder raise for an equation have the line number of that
\* equation.
C15_Later ==
  /\ [][(pc = "from" /\ pc' = "error") => err'.line = parser.eqns[neqn + 1].line_num]_vars
  /\ [][(pc = "blueprint" /\ pc' = "error") =>
          \E k \in 1..Len(parser.eqns) : err'.line = parser.eqns[k].line_num]_vars
  /\ [][(pc = "first_pass" /\ pc' = "error" /\ err'.code # "NotAnOutput") =>
          err'.line = parser.eqns[builder.next].line_num]_vars
  /\ [][(pc = "terms" /\ pc' = "error" /\ err'.code \in C15_TermCodes) =>
          \E k \in 1..Len(parser.eqns) : err'.line = parser.eqns[k].line_num]_vars

----------------------------------------------------------------------------
(* Properties of the line numbers of errors *)

\* The codes of the errors raised because the input has run out.
C16_RanOut == {"BadEOF", "BadEOL"}

\* C16: every stage stops at its first error and reports one error with
\* the number of the line it comes from.  No step follows an error.
\* Blueprint::from stops at the first equation that fails and reports the
\* line number of that equation.  An error of the parser that is raised
\* for a token or a line of the file has the number of that line: line 1
\* for the chip, the row's line for a pin row, one of the joined lines for
\* an equation; only an error raised because the input has run out has
\* the number of the file's last line.
C16 ==
  /\ [][pc # "error"]_vars
  /\ [][(pc = "from" /\ pc' = "error") =>
          /\ err'.line = parser.eqns[neqn + 1].line_num
          /\ neqn' = neqn + 1
          /\ \A k \in 1..neqn : parser.eqns[k].line_num < err'.line]_vars
  /\ [][(pc = "parse_chip" /\ pc' = "error") =>
          IF Len(file) = 0 THEN err'.line = 0 ELSE err'.line = 1]_vars
  /\ [][(pc = "parse_signature" /\ pc' = "error") =>
          err'.code \in C16_RanOut /\ err'.line = Len(file)]_vars
  /\ [][(pc = "parse_pins" /\ pc' = "error") =>
          IF err'.code \in C16_RanOut THEN parser.pos > Len(parser.lines) /\ err'.line = Len(file)
          ELSE err'.line = parser.lines[parser.pos].num]_vars
  /\ [][(C15_Reads /\ pc' = "error") =>
          IF err'.code \in C16_RanOut THEN err'.line = Len(file)
          ELSE err'.line \in C15_Numbers(parser.lines, parser.pos, C15_Last(parser.lines, parser.pos))]_vars

\* An equation line that starts with '=' and is not the last line of the
\* file has been refused with BadToken, at the number of the last line.
C16_Witness ==
  /\ pc = "error" /\ last.op = "parse_equation" /\ err.code = "BadToken"
  /\ parser.lines[parser.pos].text[1] = "="
  /\ C15_Last(parser.lines, parser.pos) = parser.pos
  /\ parser.lines[parser.pos].num < Len(file)
  /\ err.line = Len(file)

====
